---------------------------- MODULE Spec2Model ----------------------------
(***************************************************************************)
(* A model of Terracotta, the dynamic VM consolidation service:            *)
(*   - the Best Fit Decreasing placement (globals/vm_placement),           *)
(*   - the Global Manager's underload / overload procedures, its live      *)
(*     migration orchestration and host power control (globals/manager),   *)
(*   - the RPC server that hands requests to the Global Manager            *)
(*     (cmd/global_manager),                                               *)
(*   - the Local Manager's iteration (locals/manager) with its underload   *)
(*     and overload detection and its VM selection.                        *)
(*                                                                         *)
(* Host names and VM UUIDs are modelled by the integers 1..NHosts and      *)
(* 1..NVMs: Python orders the names as strings, the model orders them as   *)
(* numbers.  A Python dict is a function whose DOMAIN is its key set; the  *)
(* empty dict is the empty function <<>>.  A float threshold t is the      *)
(* integer percentage 100*t, so that t*x is computed exactly.              *)
(***************************************************************************)
EXTENDS Integers, Sequences, FiniteSets, TLC

\* ------------------------------------------------------ the cluster's size
\* config.py: compute_hosts defaults to three hosts
NHosts == 3
\* the VMs of the cluster
NVMs == 2

Hosts == 1..NHosts
VMs == 1..NVMs

\* ------------------------------------------------------- generic helpers
RECURSIVE SumSeq(_)
SumSeq(s) == IF s = <<>> THEN 0 ELSE Head(s) + SumSeq(Tail(s))

RECURSIVE SumOver(_, _)
SumOver(f, S) ==
    IF S = {} THEN 0
    ELSE LET x == CHOOSE y \in S : TRUE IN f[x] + SumOver(f, S \ {x})

MinOf(S) == CHOOSE x \in S : \A y \in S : x <= y

\* Python's cpu[-n:] for n >= 1.
LastN(s, n) == IF Len(s) <= n THEN s ELSE SubSeq(s, Len(s) - n + 1, Len(s))

\* Python's int(a / b) for a float quotient: truncation toward zero.
TruncDiv(a, b) == IF a >= 0 THEN a \div b ELSE -((-a) \div b)

\* Python's ordering of the tuples (x, y, name).
TupleLess(a, b) ==
    \/ a[1] < b[1]
    \/ a[1] = b[1] /\ a[2] < b[2]
    \/ a[1] = b[1] /\ a[2] = b[2] /\ a[3] < b[3]

\* sorted(S) for a collection S of distinct tuples.
RECURSIVE Sorted(_)
Sorted(S) ==
    IF S = {} THEN <<>>
    ELSE LET m == CHOOSE x \in S : \A y \in S : x = y \/ TupleLess(x, y)
         IN <<m>> \o Sorted(S \ {m})

Reverse(s) == [i \in 1..Len(s) |-> s[Len(s) + 1 - i]]

SeqToSet(s) == {s[i] : i \in 1..Len(s)}

\* ascending list of the elements of a set of integers
RECURSIVE SetToSeq(_)
SetToSeq(S) ==
    IF S = {} THEN <<>>
    ELSE LET m == MinOf(S) IN <<m>> \o SetToSeq(S \ {m})

\* list(a set): its elements once each, in the order the set yields them
list(S) == {q \in [1..Cardinality(S) -> S] : SeqToSet(q) = S}

\* dict restricted to the keys in K / with the keys in K popped
Restrict(f, K) == [k \in (DOMAIN f) \cap K |-> f[k]]
Pop(f, K) == [k \in (DOMAIN f) \ K |-> f[k]]

\* --------------------------------------------- Best Fit Decreasing (BFD)
\* the demand of a VM: the mean of its last n values, in Python 2 integer
\* arithmetic (the histories are lists of int).
vm_cpu_demand(last_n_vm_cpu, cpu) ==
    LET last_n_cpu == LastN(cpu, last_n_vm_cpu)
    IN SumSeq(last_n_cpu) \div Len(last_n_cpu)

get_available_resources(threshold, usage, total) ==
    [host \in DOMAIN usage |->
        TruncDiv(threshold * total[host] - 100 * usage[host], 100)]

\* the VMs with a non-empty history, as (demand, ram, uuid), sorted decreasing
bfd_vms(last_n_vm_cpu, vms_cpu, vms_ram) ==
    Reverse(Sorted({<<vm_cpu_demand(last_n_vm_cpu, vms_cpu[vm]), vms_ram[vm], vm>> :
                        vm \in {v \in DOMAIN vms_cpu : vms_cpu[v] # <<>>}}))

bfd_hosts(hosts_cpu, hosts_ram) ==
    Sorted({<<hosts_cpu[k], hosts_ram[k], k>> : k \in DOMAIN hosts_cpu})

\* the host a VM is mapped to by one scan of the list `hosts`: the first one,
\* in the order of the list, whose current availability fits (0: none).
bfd_first_fit(st, vm) ==
    LET fit == {i \in 1..Len(st.hosts) :
                    /\ st.hosts_cpu[st.hosts[i][3]] >= vm[1]
                    /\ st.hosts_ram[st.hosts[i][3]] >= vm[2]}
    IN IF fit = {} THEN 0 ELSE st.hosts[MinOf(fit)][3]

\* inactive_hosts.pop(0), append, re-sort, and the capacity of the activated
\* host entered as it came in the inactive maps.
bfd_activate(st) ==
    LET activated_host == Head(st.inactive_hosts)
    IN [st EXCEPT
          !.inactive_hosts = Tail(st.inactive_hosts),
          !.hosts = Sorted(SeqToSet(st.hosts) \cup {activated_host}),
          !.hosts_cpu = (activated_host[3] :> activated_host[1]) @@ st.hosts_cpu,
          !.hosts_ram = (activated_host[3] :> activated_host[2]) @@ st.hosts_ram]

\* the `while not mapped` loop for one VM
RECURSIVE bfd_map_vm(_, _)
bfd_map_vm(st, vm) ==
    LET host == bfd_first_fit(st, vm)
    IN IF host # 0
       THEN [st EXCEPT !.mapping = (vm[3] :> host) @@ st.mapping,
                       !.hosts_cpu[host] = @ - vm[1],
                       !.hosts_ram[host] = @ - vm[2]]
       ELSE IF st.inactive_hosts # <<>>
            THEN bfd_map_vm(bfd_activate(st), vm)
            ELSE st

\* the `for vm_cpu, vm_ram, vm_uuid in vms` loop
RECURSIVE bfd_loop(_, _)
bfd_loop(st, vms) ==
    IF vms = <<>> THEN st
    ELSE bfd_loop(bfd_map_vm(st, Head(vms)), Tail(vms))

\* the state of best_fit_decreasing when its loop ends
bfd_final(last_n_vm_cpu, hosts_cpu, hosts_ram, inactive_hosts_cpu, inactive_hosts_ram, vms_cpu, vms_ram) ==
    bfd_loop([hosts |-> bfd_hosts(hosts_cpu, hosts_ram),
              inactive_hosts |-> bfd_hosts(inactive_hosts_cpu, inactive_hosts_ram),
              hosts_cpu |-> hosts_cpu,
              hosts_ram |-> hosts_ram,
              mapping |-> <<>>],
             bfd_vms(last_n_vm_cpu, vms_cpu, vms_ram))

\* a variant that returns the mapping built, complete or not
best_fit_decreasing_partial(last_n_vm_cpu, hosts_cpu, hosts_ram, inactive_hosts_cpu, inactive_hosts_ram, vms_cpu, vms_ram) ==
    bfd_final(last_n_vm_cpu, hosts_cpu, hosts_ram, inactive_hosts_cpu, inactive_hosts_ram, vms_cpu, vms_ram).mapping

best_fit_decreasing(last_n_vm_cpu, hosts_cpu, hosts_ram, inactive_hosts_cpu, inactive_hosts_ram, vms_cpu, vms_ram) ==
    LET final == bfd_final(last_n_vm_cpu, hosts_cpu, hosts_ram,
                           inactive_hosts_cpu, inactive_hosts_ram,
                           vms_cpu, vms_ram)
    IN IF Len(bfd_vms(last_n_vm_cpu, vms_cpu, vms_ram))
            = Cardinality(DOMAIN final.mapping)
       THEN final.mapping
       ELSE <<>>

\* the function built by best_fit_decreasing_factory(time_step, migration_time, params)
vm_placement(params, hosts_cpu_usage, hosts_cpu_total, hosts_ram_usage, hosts_ram_total, inactive_hosts_cpu, inactive_hosts_ram, vms_cpu, vms_ram) ==
    best_fit_decreasing(
        params.last_n_vm_cpu,
        get_available_resources(params.cpu_threshold, hosts_cpu_usage, hosts_cpu_total),
        get_available_resources(params.ram_threshold, hosts_ram_usage, hosts_ram_total),
        inactive_hosts_cpu, inactive_hosts_ram, vms_cpu, vms_ram)

\* ------------------------------------------------ program configuration
\* config.py: algorithm_vm_placement_parameters (thresholds in percent)
CpuThresholdPct == 80
RamThresholdPct == 95
LastNVmCpu == 2

vm_placement_params ==
    [cpu_threshold |-> CpuThresholdPct,
     ram_threshold |-> RamThresholdPct,
     last_n_vm_cpu |-> LastNVmCpu]

\* --------------------------------------- the cluster the model runs on
\* every compute host has the same characteristics in the hosts table
HostCpuMhz == 20
HostRamMb == 16
\* the last CPU MHz sample of a host (its hypervisor overhead)
HostLastCpuMhz == 1
\* the RAM of the flavor of every VM
VmFlavorRamMb == 4

\* the samples the collectors have inserted for a VM that has rows in
\* vm_resource_usage (chronological)
vm_samples(vm) == IF vm % 2 = 1 THEN <<6, 14>> ELSE <<3>>

VARIABLES
    \* the hypervisor control plane (Nova)
    vm_host,            \* VM -> the host Nova reports for it (0: NotFound)
    vm_task,            \* VM -> destination of its live migration in
                        \*       progress (0: none, the status is ACTIVE)
    \* the central database
    db_vm_rows,         \* VM -> "unknown" (no row in vms), "empty" (a row in
                        \*       vms, none in vm_resource_usage) or "data"
    db_host_states,     \* host -> the state of its latest host_states row
    db_vm_migrations,   \* the rows of vm_migrations, as (vm, host)
    \* the Global Manager's request handler
    gm_pc,              \* where the handler is
    gm_req,             \* the request: reason, host, vm_uuids
    placement,          \* the placement obtained for the request
    hosts_to_deactivate,
    hosts_to_activate,
    vms,                \* migrate_vms: the VMs of this pass not yet started
    vm_pair,            \* migrate_vms: the batch in flight
    late,               \* time.time() - start_time > 300
    retry_placement,    \* migrate_vms: the keys of retry_placement
    \* what the handler has called while serving the request
    live_migrate_calls, \* nova.servers.live_migrate(vm, host, ...)
    switched_off,       \* hosts passed to switch_hosts_off
    switched_on         \* hosts passed to switch_hosts_on

novaVars == <<vm_host, vm_task>>
dbVars == <<db_vm_rows, db_host_states, db_vm_migrations>>
gmLocals == <<gm_req, placement, hosts_to_deactivate, hosts_to_activate, vms, vm_pair, late, retry_placement>>
gmCalls == <<live_migrate_calls, switched_off, switched_on>>
gmVars == <<novaVars, dbVars, gm_pc, gmLocals, gmCalls>>

VARIABLES
    \* one call of the placement function built by best_fit_decreasing_factory
    bfd_args,           \* params and the eight maps the function is called with
    bfd_result,         \* called: the call has returned; mapping: what it returned;
                        \* hosts_cpu, hosts_ram: the dicts passed as arguments, after
                        \* the last call; again, mapping_again: a second call on the
                        \* same arguments has returned, and what it returned
    \* the requests at the Global Manager's RPC server
    svc_queue,          \* the messages received and not yet dispatched
    svc_pc,             \* greenthread -> the step of service() it is at
    svc_req,            \* greenthread -> the request it serves
    \* the Local Manager of one compute host
    lm_state,           \* self.state: the detectors' state between iterations
    lm_ticks,           \* the iterations executed
    lm_tick,            \* what the last iteration computed and decided
    lm_sent             \* the RPC messages sent to the Global Manager

VARIABLES
    \* the data collector of one compute host
    col_data_length,     \* CONF.data_collector_data_length
    col_vm_files,        \* <local_data_directory>/vms: a file of values per VM
    col_host_file,       \* <local_data_directory>/host
    col_state,           \* Collector.state
    col_events,          \* the rows insert_host_overload has added, oldest first
    col_ticks,           \* the iterations so far
    col_tick             \* what the last iteration did

colVars == <<col_data_length, col_vm_files, col_host_file, col_state, col_events, col_ticks, col_tick>>
VARIABLES
    \* successive calls of the function built by otf_factory
    otf_params,          \* params and migration_time_normalized of the factory
    otf_state,           \* the state dictionary passed from call to call
    otf_utilization,     \* the utilization history, one more value at each call
    otf_decisions,       \* the decisions returned so far
    \* one call of mhod.core.utilization_to_state
    mhod_args,
    mhod_result

otfVars == <<otf_params, otf_state, otf_utilization, otf_decisions>>
mhodVars == <<mhod_args, mhod_result>>
VARIABLES
    \* one call of a function of the managers, on any arguments
    call_args,           \* the function called (fn) and its arguments
    call_result          \* whether it has returned, and the value

callVars == <<call_args, call_result>>
VARIABLES
    \* the central database: the tables hosts and host_states
    hosts_table,         \* the rows of hosts: host names, the id is the position
    host_states_table    \* the rows of host_states, in the order of their ids

hostStatesVars == <<hosts_table, host_states_table>>
VARIABLES
    \* the central database: the table vms and the clients that call select_vm_id
    vms_table,           \* the rows of vms: VM UUIDs, the id is the position
    vm_id_calls,         \* per client: where it is in select_vm_id
    vm_ids_returned      \* the pairs (uuid, id) select_vm_id has returned

vmIdVars == <<vms_table, vm_id_calls, vm_ids_returned>>
\* the MHOD algorithm called tick after tick (mhod_wrapper)
VARIABLES
    mhod_params,        \* state_config (percent) and learning_steps
    mhod_state,         \* the state dict handed from call to call; <<>>: None
    mhod_calls          \* one record per call: its inputs and the decision returned
mhodRunVars == <<mhod_params, mhod_state, mhod_calls>>

\* one local VM file written by the collector and read by the local manager,
\* two services on one host that share <local_data_directory>/vms
VARIABLES
    vm_file,            \* the file: whether it exists and the values it holds
    append_pc,          \* where append_vm_data_locally is: "idle", "read", "opened"
    append_values,      \* the values append_vm_data_locally is going to write
    append_old,         \* the file as it was when the append began
    vm_file_appends,    \* the appends completed
    vm_file_read,       \* the last get_local_vm_data: what it read, and the old and new content then
    vm_file_reads       \* the reads so far
vmFileVars == <<vm_file, append_pc, append_values, append_old, vm_file_appends, vm_file_read, vm_file_reads>>

\* the requests served by other greenthreads of the Global Manager's server
VARIABLES
    gm_others           \* how many of them have been served so far
gmOtherVars == <<gm_others>>

\* the MAC addresses the Global Manager keeps for switch_hosts_on
VARIABLES
    host_macs,          \* self.state['host_macs']: host -> the address kept for it
    host_macs_writes,   \* host -> how many times its entry has been assigned
    ether_wake_calls,   \* per call of switch_hosts_on, the (host, address) pairs passed to ether-wake
    switch_on_calls     \* the calls of switch_hosts_on so far
hostMacVars == <<host_macs, host_macs_writes, ether_wake_calls, switch_on_calls>>

moreVars == <<colVars, otfVars, mhodVars, callVars, hostStatesVars, vmIdVars, mhodRunVars, vmFileVars, gmOtherVars, hostMacVars>>
bfdVars == <<bfd_args, bfd_result>>
svcVars == <<svc_queue, svc_pc, svc_req>>
lmVars == <<lm_state, lm_ticks, lm_tick, lm_sent>>
notGm == <<bfdVars, svcVars, lmVars, moreVars>>

vars == <<gmVars, bfdVars, svcVars, lmVars, moreVars>>

\* ------------------------------------------------------------- Nova, DB
vm_status(vm) == IF vm_task[vm] = 0 THEN "ACTIVE" ELSE "MIGRATING"

\* OS-EXT-STS:vm_state; a VM under live migration stays 'active'
vm_state(vm) == IF vm_status(vm) \in {"ACTIVE", "MIGRATING"} THEN "active" ELSE "error"

\* vms_by_hosts(nova, hosts): every server, whatever its state
vms_by_hosts == [host \in Hosts |-> SetToSeq({vm \in VMs : vm_host[vm] = host})]

\* vms_by_host(nova, host): the servers of the host in state 'active'
vms_by_host(host) ==
    SetToSeq({vm \in VMs : vm_host[vm] = host /\ vm_state(vm) = "active"})

host_used_ram(host) == VmFlavorRamMb * Cardinality({vm \in VMs : vm_host[vm] = host})

select_host_characteristics_cpu == [host \in Hosts |-> HostCpuMhz]
select_host_characteristics_ram == [host \in Hosts |-> HostRamMb]
select_last_cpu_mhz_for_hosts == [host \in Hosts |-> HostLastCpuMhz]

select_cpu_mhz_for_vm(vm) ==
    IF db_vm_rows[vm] = "data" THEN vm_samples(vm) ELSE <<>>

\* every VM of the vms table, with 0 when it has no usage row
select_last_cpu_mhz_for_vms ==
    [vm \in {v \in VMs : db_vm_rows[v] # "unknown"} |->
        IF db_vm_rows[vm] = "data"
        THEN vm_samples(vm)[Len(vm_samples(vm))]
        ELSE 0]

select_inactive_hosts == {host \in Hosts : db_host_states[host] = 0}

\* for i, x in enumerate(lst): if x not in keep: del lst[i]
\* (the iterator's index moves on after a deletion)
RECURSIVE enumerate_del(_, _, _)
enumerate_del(lst, i, keep) ==
    IF i > Len(lst) THEN lst
    ELSE IF lst[i] \notin keep
         THEN enumerate_del(SubSeq(lst, 1, i - 1) \o SubSeq(lst, i + 1, Len(lst)), i + 1, keep)
         ELSE enumerate_del(lst, i + 1, keep)

\* hosts_to_vms after "Remove VMs from hosts_to_vms that are not in vms_last_cpu"
pruned_hosts_to_vms ==
    [host \in Hosts |->
        enumerate_del(vms_by_hosts[host], 1, DOMAIN select_last_cpu_mhz_for_vms)]

\* ------------------------------------ the cluster snapshot of a request
\* the hosts on which the second loop over hosts_to_vms still meets a VM
\* that is not in vms_last_cpu ('No data yet for VM ... skipping host')
hosts_with_new_vm ==
    {host \in Hosts :
        \E i \in 1..Len(pruned_hosts_to_vms[host]) :
            pruned_hosts_to_vms[host][i] \notin DOMAIN select_last_cpu_mhz_for_vms}

\* the hosts whose pruned VM list is empty ('Exclude inactive hosts')
hosts_without_vms == {host \in Hosts : pruned_hosts_to_vms[host] = <<>>}

\* the keys of hosts_cpu_usage / hosts_ram_usage after the loop over hosts_to_vms
hosts_in_use == (Hosts \ hosts_without_vms) \ hosts_with_new_vm

hosts_cpu_usage_of(host) ==
    select_last_cpu_mhz_for_hosts[host]
      + SumOver(select_last_cpu_mhz_for_vms, SeqToSet(pruned_hosts_to_vms[host]))

\* what both procedures gather about the VMs to migrate.  `gone` are the VMs
\* for which nova.servers.get raises NotFound in vms_ram_limit.
\*   outcome "dropped": a VM is not in vms_last_cpu, the request is dropped
\*   outcome "no_vms":  no VM is left after the VMs without RAM are removed
vms_to_migrate_data(vms_to_migrate, gone) ==
    LET vms_ram == [vm \in {v \in SeqToSet(vms_to_migrate) : vm_host[v] # 0 /\ v \notin gone} |-> VmFlavorRamMb]
        remaining == enumerate_del(vms_to_migrate, 1, DOMAIN vms_ram)
        vms_cpu == [vm \in SeqToSet(vms_to_migrate) \cap DOMAIN vms_ram |-> select_cpu_mhz_for_vm(vm)]
    IN IF \E vm \in SeqToSet(vms_to_migrate) : vm \notin DOMAIN select_last_cpu_mhz_for_vms
       THEN [outcome |-> "dropped", vms_cpu |-> <<>>, vms_ram |-> <<>>, vms_to_migrate |-> vms_to_migrate]
       ELSE IF remaining = <<>>
            THEN [outcome |-> "no_vms", vms_cpu |-> vms_cpu, vms_ram |-> vms_ram, vms_to_migrate |-> remaining]
            ELSE [outcome |-> "place", vms_cpu |-> vms_cpu, vms_ram |-> vms_ram, vms_to_migrate |-> remaining]

\* ------------------------------------------------------ execute_underload
\* the keys of the inactive-host maps execute_underload passes to the
\* placement: both are {}
\* a variant that offers the hosts without VMs, as execute_overload does
underload_inactive_hosts_as_overload == hosts_without_vms

underload_inactive_hosts == {}

\* hosts_cpu_total.keys() when the placement is called: the hosts table less
\* the hosts without VMs, the skipped hosts and the underloaded host
underload_active_hosts(underloaded_host) == hosts_in_use \ {underloaded_host}

underload_placement(underloaded_host, data) ==
    LET active == underload_active_hosts(underloaded_host)
    IN vm_placement(vm_placement_params,
                    [host \in active |-> hosts_cpu_usage_of(host)],
                    Restrict(select_host_characteristics_cpu, active),
                    [host \in active |-> host_used_ram(host)],
                    Restrict(select_host_characteristics_ram, active),
                    Restrict(select_host_characteristics_cpu, underload_inactive_hosts),
                    Restrict(select_host_characteristics_ram, underload_inactive_hosts),
                    data.vms_cpu, data.vms_ram)

\* a variant that lets the underloaded host go to sleep whatever the placement
underload_hosts_to_deactivate_keeping_none(underloaded_host, new_placement) ==
    ((Hosts \ underload_active_hosts(underloaded_host)) \ select_inactive_hosts) \ hosts_with_new_vm

underload_hosts_to_deactivate(underloaded_host, new_placement) ==
    LET active_hosts == underload_active_hosts(underloaded_host)
        inactive_hosts == Hosts \ active_hosts
        to_deactivate == (inactive_hosts \ select_inactive_hosts) \ hosts_with_new_vm
    IN IF DOMAIN new_placement = {}
       THEN to_deactivate \ {underloaded_host}
       ELSE to_deactivate

\* ------------------------------------------------------- execute_overload
\* inactive_hosts_cpu.keys(): the hosts whose pruned VM list is empty
overload_inactive_hosts == hosts_without_vms

\* hosts_cpu_total.keys() when the placement is called
overload_active_hosts(overloaded_host) == hosts_in_use \ {overloaded_host}

overload_placement(overloaded_host, data) ==
    LET active == overload_active_hosts(overloaded_host)
    IN vm_placement(vm_placement_params,
                    [host \in active |-> hosts_cpu_usage_of(host)],
                    Restrict(select_host_characteristics_cpu, active),
                    [host \in active |-> host_used_ram(host)],
                    Restrict(select_host_characteristics_ram, active),
                    Restrict(select_host_characteristics_cpu, overload_inactive_hosts),
                    Restrict(select_host_characteristics_ram, overload_inactive_hosts),
                    data.vms_cpu, data.vms_ram)

\* a variant that wakes no host
overload_hosts_to_activate_none(new_placement) == {}

overload_hosts_to_activate(new_placement) ==
    overload_inactive_hosts \cap {new_placement[vm] : vm \in DOMAIN new_placement}

\* --------------------------------------------- the Global Manager: Init
NoRequest == [reason |-> -1, host |-> 0, vm_uuids |-> <<>>]

\* GlobalManager.__init__: the state is initialised and every compute host
\* is switched on (a host_states row 1 each); no request is being served.
GmInit ==
    /\ vm_host \in [VMs -> Hosts]
    /\ vm_task = [vm \in VMs |-> 0]
    /\ db_vm_rows \in [VMs -> {"unknown", "empty", "data"}]
    /\ db_host_states = [host \in Hosts |-> 1]
    /\ db_vm_migrations = {}
    /\ gm_pc = "idle"
    /\ gm_req = NoRequest
    /\ placement = <<>>
    /\ hosts_to_deactivate = {}
    /\ hosts_to_activate = {}
    /\ vms = {}
    /\ vm_pair = 0
    /\ late = FALSE
    /\ retry_placement = {}
    /\ live_migrate_calls = {}
    /\ switched_off = {}
    /\ switched_on = {}

\* ------------------------------------------ the Global Manager: actions
\* service(0, host, _) up to the call of migrate_vms or switch_hosts_off
ExecuteUnderload(host, gone) ==
    LET data == vms_to_migrate_data(vms_by_host(host), gone)
        new_placement == IF data.outcome = "place" THEN underload_placement(host, data) ELSE <<>>
        to_deactivate == IF data.outcome = "place" THEN underload_hosts_to_deactivate(host, new_placement) ELSE {}
    IN /\ gm_pc = "idle"
       /\ gone \subseteq SeqToSet(vms_by_host(host))
       /\ data.outcome = "dropped" => gone = {}
       /\ gm_req' = [reason |-> 0, host |-> host, vm_uuids |-> <<>>]
       /\ vm_host' = [vm \in VMs |-> IF vm \in gone THEN 0 ELSE vm_host[vm]]
       /\ placement' = new_placement
       /\ hosts_to_deactivate' = to_deactivate
       /\ vms' = DOMAIN new_placement
       /\ gm_pc' = IF data.outcome # "place" THEN "done"
                   ELSE IF DOMAIN new_placement # {} THEN "migrate"
                   ELSE IF to_deactivate # {} THEN "switch_off"
                   ELSE "done"
       /\ UNCHANGED <<vm_task, dbVars, hosts_to_activate, vm_pair, late, retry_placement, gmCalls, notGm>>

\* service(1, host, vm_uuids) up to the call of switch_hosts_on or migrate_vms
ExecuteOverload(host, vm_uuids, gone) ==
    LET data == vms_to_migrate_data(vm_uuids, gone)
        new_placement == IF data.outcome = "place" THEN overload_placement(host, data) ELSE <<>>
        to_activate == overload_hosts_to_activate(new_placement)
    IN /\ gm_pc = "idle"
       /\ gone \subseteq SeqToSet(vm_uuids)
       /\ data.outcome = "dropped" => gone = {}
       /\ gm_req' = [reason |-> 1, host |-> host, vm_uuids |-> data.vms_to_migrate]
       /\ vm_host' = [vm \in VMs |-> IF vm \in gone THEN 0 ELSE vm_host[vm]]
       /\ placement' = new_placement
       /\ hosts_to_activate' = to_activate
       /\ vms' = DOMAIN new_placement
       /\ gm_pc' = IF DOMAIN new_placement = {} THEN "done"
                   ELSE IF to_activate # {} THEN "switch_on"
                   ELSE "migrate"
       /\ UNCHANGED <<vm_task, dbVars, hosts_to_deactivate, vm_pair, late, retry_placement, gmCalls, notGm>>

\* GlobalManager.switch_hosts_on(hosts_to_activate)
SwitchHostsOn ==
    /\ gm_pc = "switch_on"
    /\ switched_on' = switched_on \cup hosts_to_activate
    /\ db_host_states' = [host \in Hosts |-> IF host \in hosts_to_activate THEN 1 ELSE db_host_states[host]]
    /\ gm_pc' = "migrate"
    /\ UNCHANGED <<novaVars, db_vm_rows, db_vm_migrations, gmLocals, live_migrate_calls, switched_off, notGm>>

\* migrate_vms: the next batch, vm_pair = [vm]; migrate_vm and the first sleep.
\* Nova starts the live migration, or refuses it (the VM is already on the
\* destination) and the exception leaves the handler.
MigrateVm(vm) ==
    /\ gm_pc = "migrate"
    /\ vm \in vms
    /\ vms' = vms \ {vm}
    /\ live_migrate_calls' = live_migrate_calls \cup {<<vm, placement[vm]>>}
    /\ \/ /\ vm_host[vm] \notin {0, placement[vm]}
          /\ vm_task' = [vm_task EXCEPT ![vm] = placement[vm]]
          /\ vm_pair' = vm
          /\ late' = FALSE
          /\ gm_pc' = "poll"
       \/ /\ vm_host[vm] \in {0, placement[vm]}
          /\ gm_pc' = "raised"
          /\ UNCHANGED <<vm_task, vm_pair, late>>
    /\ UNCHANGED <<vm_host, dbVars, gm_req, placement, hosts_to_deactivate, hosts_to_activate, retry_placement, switched_off, switched_on, notGm>>

\* the tests of the polling loop on the record Nova returns for the VM
\* a variant that takes an ACTIVE status alone for the end of the migration
migration_completed_on_status(vm) == vm_status(vm) = "ACTIVE"

migration_completed(vm) ==
    vm_host[vm] = placement[vm] /\ vm_status(vm) = "ACTIVE"

\* a variant that gives a VM up after 300 s whatever its status
migration_timed_out_any_status(vm) ==
    late /\ vm_host[vm] # placement[vm]

\* a variant that does not wait for 300 s
migration_timed_out_at_once(vm) ==
    vm_host[vm] # placement[vm] /\ vm_status(vm) = "ACTIVE"

migration_timed_out(vm) ==
    late /\ vm_host[vm] # placement[vm] /\ vm_status(vm) = "ACTIVE"

\* one round of the `while True` loop for the batch in flight
Poll ==
    /\ gm_pc = "poll"
    /\ \/ /\ migration_completed(vm_pair)
          /\ db_vm_migrations' = db_vm_migrations \cup {<<vm_pair, placement[vm_pair]>>}
          /\ vm_pair' = 0
          /\ gm_pc' = "migrate"
          /\ UNCHANGED <<retry_placement, late>>
       \/ /\ ~migration_completed(vm_pair)
          /\ migration_timed_out(vm_pair)
          /\ retry_placement' = retry_placement \cup {vm_pair}
          /\ vm_pair' = 0
          /\ gm_pc' = "migrate"
          /\ UNCHANGED <<db_vm_migrations, late>>
       \/ /\ ~migration_completed(vm_pair)
          /\ ~migration_timed_out(vm_pair)
          /\ late' \in {late, TRUE}
          /\ UNCHANGED <<db_vm_migrations, retry_placement, vm_pair, gm_pc>>
    /\ UNCHANGED <<novaVars, db_vm_rows, db_host_states, gm_req, placement, hosts_to_deactivate, hosts_to_activate, vms, gmCalls, notGm>>

\* migrate_vms after its last batch: the recursive call on retry_placement,
\* or the return to the procedure that called it
MigrateVmsEnd ==
    /\ gm_pc = "migrate"
    /\ vms = {}
    /\ \/ /\ retry_placement # {}
          /\ vms' = retry_placement
          /\ retry_placement' = {}
          /\ UNCHANGED gm_pc
       \/ /\ retry_placement = {}
          /\ gm_pc' = IF gm_req.reason = 0 /\ hosts_to_deactivate # {} THEN "switch_off" ELSE "done"
          /\ UNCHANGED <<vms, retry_placement>>
    /\ UNCHANGED <<novaVars, dbVars, gm_req, placement, hosts_to_deactivate, hosts_to_activate, vm_pair, late, gmCalls, notGm>>

\* switch_hosts_off(db, sleep_command, hosts_to_deactivate)
SwitchHostsOff ==
    /\ gm_pc = "switch_off"
    /\ switched_off' = switched_off \cup hosts_to_deactivate
    /\ db_host_states' = [host \in Hosts |-> IF host \in hosts_to_deactivate THEN 0 ELSE db_host_states[host]]
    /\ gm_pc' = "done"
    /\ UNCHANGED <<novaVars, db_vm_rows, db_vm_migrations, gmLocals, live_migrate_calls, switched_on, notGm>>

\* the handler returns (or has raised); the server waits for the next request
ServiceReturn ==
    /\ gm_pc \in {"done", "raised"}
    /\ gm_pc' = "idle"
    /\ gm_req' = NoRequest
    /\ placement' = <<>>
    /\ hosts_to_deactivate' = {}
    /\ hosts_to_activate' = {}
    /\ vms' = {}
    /\ vm_pair' = 0
    /\ late' = FALSE
    /\ retry_placement' = {}
    /\ live_migrate_calls' = {}
    /\ switched_off' = {}
    /\ switched_on' = {}
    /\ UNCHANGED <<novaVars, dbVars, notGm>>

\* Nova: a live migration in progress reaches its destination
NovaMigrationCompletes(vm) ==
    /\ vm_task[vm] # 0
    /\ vm_host' = [vm_host EXCEPT ![vm] = vm_task[vm]]
    /\ vm_task' = [vm_task EXCEPT ![vm] = 0]
    /\ UNCHANGED <<dbVars, gm_pc, gmLocals, gmCalls, notGm>>

\* Nova: a live migration in progress is given up, the VM stays where it was
NovaMigrationFails(vm) ==
    /\ vm_task[vm] # 0
    /\ vm_task' = [vm_task EXCEPT ![vm] = 0]
    /\ UNCHANGED <<vm_host, dbVars, gm_pc, gmLocals, gmCalls, notGm>>

\* the requests the model lets other greenthreads serve in one behaviour
MaxOtherRequests == 1

\* service(0, host) served from start to end by another greenthread of the
\* server while this handler is in time.sleep inside migrate_vms: the server
\* runs one greenthread per message and service() takes no lock. The other
\* request reads the same Nova and database, its live migrations complete and
\* it switches its hosts off.
ExecuteUnderloadMeanwhile(host, gone) ==
    LET data == vms_to_migrate_data(vms_by_host(host), gone)
        new_placement == IF data.outcome = "place" THEN underload_placement(host, data) ELSE <<>>
        to_deactivate == IF data.outcome = "place" THEN underload_hosts_to_deactivate(host, new_placement) ELSE {}
    IN /\ gm_pc = "poll"
       /\ gm_others < MaxOtherRequests
       /\ gm_others' = gm_others + 1
       /\ gone \subseteq SeqToSet(vms_by_host(host))
       /\ data.outcome = "place"
       \* migrate_vm raises for none of its VMs
       /\ \A vm \in DOMAIN new_placement : vm_host[vm] \notin {0, new_placement[vm]}
       /\ vm_host' = [vm \in VMs |-> IF vm \in gone THEN 0
                                     ELSE IF vm \in DOMAIN new_placement THEN new_placement[vm]
                                     ELSE vm_host[vm]]
       /\ db_vm_migrations' = db_vm_migrations \cup {<<vm, new_placement[vm]>> : vm \in DOMAIN new_placement}
       /\ db_host_states' = [h \in Hosts |-> IF h \in to_deactivate THEN 0 ELSE db_host_states[h]]
       /\ UNCHANGED <<vm_task, db_vm_rows, gm_pc, gmLocals, gmCalls, bfdVars, svcVars, lmVars>>
       /\ UNCHANGED <<colVars, otfVars, mhodVars, callVars, hostStatesVars, vmIdVars, mhodRunVars, vmFileVars, hostMacVars>>

\* the lists of UUIDs an overload request may carry
VmUuidLists == {SetToSeq(S) : S \in (SUBSET VMs) \ {{}}}

GmNext ==
    \/ \E host \in Hosts : \E gone \in SUBSET VMs : ExecuteUnderload(host, gone)
    \/ \E host \in Hosts : \E vm_uuids \in VmUuidLists : \E gone \in SUBSET VMs : ExecuteOverload(host, vm_uuids, gone)
    \/ SwitchHostsOn
    \/ \E vm \in VMs : MigrateVm(vm)
    \/ Poll
    \/ MigrateVmsEnd
    \/ SwitchHostsOff
    \/ ServiceReturn
    \/ \E vm \in VMs : NovaMigrationCompletes(vm)
    \/ \E vm \in VMs : NovaMigrationFails(vm)

\* the Global Manager when a specification does not run it
GmQuiet ==
    /\ vm_host = [vm \in VMs |-> MinOf(Hosts)]
    /\ vm_task = [vm \in VMs |-> 0]
    /\ db_vm_rows = [vm \in VMs |-> "unknown"]
    /\ db_host_states = [host \in Hosts |-> 1]
    /\ db_vm_migrations = {}
    /\ gm_pc = "idle"
    /\ gm_req = NoRequest
    /\ placement = <<>>
    /\ hosts_to_deactivate = {}
    /\ hosts_to_activate = {}
    /\ vms = {}
    /\ vm_pair = 0
    /\ late = FALSE
    /\ retry_placement = {}
    /\ live_migrate_calls = {}
    /\ switched_off = {}
    /\ switched_on = {}

\* ------------------------------------- a call of the placement function
\* what a host is when the function is called: not in any map, in the
\* inactive maps, or in the usage maps with no load / with some load
BfdHostRoles == {"absent", "inactive", "idle", "loaded"}

\* the CPU histories (MHz) and the RAM (MB) of the VMs to place
BfdHistories == {<<>>, <<3>>, <<6, 14>>, <<8, 9>>, <<18>>}
BfdRams == {VmFlavorRamMb, 3 * VmFlavorRamMb}

BfdNoVm == [present |-> FALSE, cpu |-> <<>>, ram |-> 0]
BfdVmInputs == {BfdNoVm} \cup [present : {TRUE}, cpu : BfdHistories, ram : BfdRams]

\* the arguments of one call, for the given hosts and VMs
BfdArgs(roles, vms_in, last_n_vm_cpu) ==
    LET active == {host \in Hosts : roles[host] \in {"idle", "loaded"}}
        inactive == {host \in Hosts : roles[host] = "inactive"}
        present == {vm \in VMs : vms_in[vm].present}
    IN [params |-> [vm_placement_params EXCEPT !.last_n_vm_cpu = last_n_vm_cpu],
        hosts_cpu_usage |-> [host \in active |-> IF roles[host] = "loaded" THEN 8 ELSE 0],
        hosts_cpu_total |-> [host \in active |-> HostCpuMhz],
        hosts_ram_usage |-> [host \in active |-> IF roles[host] = "loaded" THEN 8 ELSE 0],
        hosts_ram_total |-> [host \in active |-> HostRamMb],
        inactive_hosts_cpu |-> [host \in inactive |-> HostCpuMhz],
        inactive_hosts_ram |-> [host \in inactive |-> HostRamMb],
        vms_cpu |-> [vm \in present |-> vms_in[vm].cpu],
        vms_ram |-> [vm \in present |-> vms_in[vm].ram]]

BfdNotCalled ==
    [called |-> FALSE, mapping |-> <<>>, hosts_cpu |-> <<>>, hosts_ram |-> <<>>,
     again |-> FALSE, mapping_again |-> <<>>]

BfdInit ==
    /\ \E roles \in [Hosts -> BfdHostRoles] :
         \E vms_in \in [VMs -> BfdVmInputs] :
           \E last_n_vm_cpu \in 1..LastNVmCpu :
             bfd_args = BfdArgs(roles, vms_in, last_n_vm_cpu)
    /\ bfd_result = BfdNotCalled

\* no call of the placement function is under way
BfdQuiet ==
    /\ bfd_args = BfdArgs([host \in Hosts |-> "absent"], [vm \in VMs |-> BfdNoVm], LastNVmCpu)
    /\ bfd_result = BfdNotCalled

\* the call: the first component of the pair the function returns
BfdCall ==
    /\ ~bfd_result.called
    /\ LET hosts_cpu == get_available_resources(bfd_args.params.cpu_threshold, bfd_args.hosts_cpu_usage, bfd_args.hosts_cpu_total)
           hosts_ram == get_available_resources(bfd_args.params.ram_threshold, bfd_args.hosts_ram_usage, bfd_args.hosts_ram_total)
           final == bfd_final(bfd_args.params.last_n_vm_cpu, hosts_cpu, hosts_ram,
                              bfd_args.inactive_hosts_cpu, bfd_args.inactive_hosts_ram,
                              bfd_args.vms_cpu, bfd_args.vms_ram)
       IN bfd_result' =
            [bfd_result EXCEPT
               !.called = TRUE,
               !.mapping = vm_placement(bfd_args.params,
                                        bfd_args.hosts_cpu_usage, bfd_args.hosts_cpu_total,
                                        bfd_args.hosts_ram_usage, bfd_args.hosts_ram_total,
                                        bfd_args.inactive_hosts_cpu, bfd_args.inactive_hosts_ram,
                                        bfd_args.vms_cpu, bfd_args.vms_ram),
               !.hosts_cpu = final.hosts_cpu,
               !.hosts_ram = final.hosts_ram]
    /\ UNCHANGED <<bfd_args, gmVars, svcVars, lmVars, moreVars>>

\* best_fit_decreasing called once more with the same arguments: the same
\* dict objects, as the first call left them
BfdCallAgain ==
    /\ bfd_result.called
    /\ ~bfd_result.again
    /\ LET final == bfd_final(bfd_args.params.last_n_vm_cpu, bfd_result.hosts_cpu, bfd_result.hosts_ram,
                              bfd_args.inactive_hosts_cpu, bfd_args.inactive_hosts_ram,
                              bfd_args.vms_cpu, bfd_args.vms_ram)
       IN bfd_result' =
            [bfd_result EXCEPT
               !.again = TRUE,
               !.mapping_again = best_fit_decreasing(bfd_args.params.last_n_vm_cpu,
                                                     bfd_result.hosts_cpu, bfd_result.hosts_ram,
                                                     bfd_args.inactive_hosts_cpu, bfd_args.inactive_hosts_ram,
                                                     bfd_args.vms_cpu, bfd_args.vms_ram),
               !.hosts_cpu = final.hosts_cpu,
               !.hosts_ram = final.hosts_ram]
    /\ UNCHANGED <<bfd_args, gmVars, svcVars, lmVars, moreVars>>

BfdNext ==
    \/ BfdCall
    \/ BfdCallAgain

\* ------------------------- the RPC server in front of GlobalManager.service
\* the greenthreads of the server's executor that the model follows
NHandlers == 2
\* the messages that may wait at the listener
MaxQueue == 2

SvcHandlers == 1..NHandlers
SvcRequests == [reason : {0, 1}, host : Hosts]
SvcNoRequest == [reason |-> -1, host |-> 0]

SvcInit ==
    /\ svc_queue = <<>>
    /\ svc_pc = [g \in SvcHandlers |-> "free"]
    /\ svc_req = [g \in SvcHandlers |-> SvcNoRequest]

SvcQuiet == SvcInit

\* a Local Manager's request reaches the server
SvcArrive(req) ==
    /\ Len(svc_queue) < MaxQueue
    /\ svc_queue' = Append(svc_queue, req)
    /\ UNCHANGED <<svc_pc, svc_req, gmVars, bfdVars, lmVars, moreVars>>

\* the 'eventlet' executor takes the oldest message and runs the endpoint
\* for it in a greenthread of its own: service(reason, host, vm_uuids) starts.
\* Nothing in service() or around it waits for a request in progress.
SvcDispatch(g) ==
    /\ svc_queue # <<>>
    /\ svc_pc[g] = "free"
    /\ svc_req' = [svc_req EXCEPT ![g] = Head(svc_queue)]
    /\ svc_queue' = Tail(svc_queue)
    /\ svc_pc' = [svc_pc EXCEPT ![g] = "snapshot"]
    /\ UNCHANGED <<gmVars, bfdVars, lmVars, moreVars>>

\* service() goes on to its next blocking call, where the greenthread yields:
\* the reads from Nova and the DB, the placement, migrate_vms (Nova calls and
\* time.sleep), the power commands, and the return
SvcStep(g) ==
    /\ svc_pc[g] # "free"
    /\ svc_pc' = [svc_pc EXCEPT ![g] =
                    CASE @ = "snapshot" -> "placement"
                      [] @ = "placement" -> "migrate"
                      [] @ = "migrate" -> "power"
                      [] @ = "power" -> "free"]
    /\ svc_req' = [svc_req EXCEPT ![g] = IF svc_pc[g] = "power" THEN SvcNoRequest ELSE @]
    /\ UNCHANGED <<svc_queue, gmVars, bfdVars, lmVars, moreVars>>

SvcNext ==
    \/ \E req \in SvcRequests : SvcArrive(req)
    \/ \E g \in SvcHandlers : SvcDispatch(g)
    \/ \E g \in SvcHandlers : SvcStep(g)

\* ------------------------------------------------- the Local Manager
\* A utilization u = x / physical_cpu_mhz_total is kept as its numerator x
\* (MHz); a comparison with a threshold is made on the cross products.  A
\* float that is a quotient of integers is kept as the pair <<num, den>>.
RECURSIVE GCD(_, _)
GCD(a, b) == IF b = 0 THEN a ELSE GCD(b, a % b)

MaxOf(S) == CHOOSE x \in S : \A y \in S : x >= y

Zeros(n) == [i \in 1..n |-> 0]

\* config.py: data_collector_interval, network_migration_bandwidth
data_collector_interval == 300
network_migration_bandwidth == 10

\* config.py: algorithm_underload_detection_parameters (threshold in percent)
UnderloadThresholdPct == 50
UnderloadN == 2
\* the parameters of the OTF overload detection (otf and threshold in percent)
OtfPct == 50
OtfThresholdPct == 80
OtfLimit == 2
\* config.py: algorithm_vm_selection_parameters
SelectionLastN == 2

\* the iterations of the Local Manager the model follows
MaxTicks == 3

\* init_state: hostname and physical_cpu_mhz_total (host_cpu_usable_by_vms = 1.0)
lm_hostname == MinOf(Hosts)
physical_cpu_mhz_total == HostCpuMhz

\* the histories the collector may have left in the local files
LmVmHistories == {<<>>, <<2>>, <<4, 12>>, <<9, 9>>}
LmHostHistories == {<<>>, <<1>>, <<1, 1, 1>>}

\* get_ram: the VMs libvirt knows, with their maxMemory() / 1024
get_ram(vm_ids, known) == [uuid \in vm_ids \cap known |-> VmFlavorRamMb]

cleanup_vm_data(vm_data, uuids) == Restrict(vm_data, uuids)

\* a variant that aligns the histories on their first values
vm_mhz_to_percentage_left_aligned(vm_mhz_history, host_mhz_history, physical_cpu_mhz) ==
    LET max_len == MaxOf({Len(vm_mhz_history[vm]) : vm \in DOMAIN vm_mhz_history})
        pad(x) == x \o Zeros(max_len)
    IN [i \in 1..max_len |->
          SumOver([vm \in DOMAIN vm_mhz_history |-> pad(vm_mhz_history[vm])[i]], DOMAIN vm_mhz_history)
            + pad(host_mhz_history)[i]]

\* the numerators of the utilization history
vm_mhz_to_percentage(vm_mhz_history, host_mhz_history, physical_cpu_mhz) ==
    LET max_len == MaxOf({Len(vm_mhz_history[vm]) : vm \in DOMAIN vm_mhz_history})
        host == IF Len(host_mhz_history) > max_len /\ max_len > 0
                THEN LastN(host_mhz_history, max_len)
                ELSE host_mhz_history
        pad(x) == Zeros(max_len - Len(x)) \o x
        width == IF Len(host) > max_len THEN 0 ELSE max_len
    IN [i \in 1..width |->
          SumOver([vm \in DOMAIN vm_mhz_history |-> pad(vm_mhz_history[vm])[i]], DOMAIN vm_mhz_history)
            + pad(host)[i]]

\* common.calculate_migration_time: mean(vms.values()) / bandwidth
calculate_migration_time(vm_ram, bandwidth) ==
    LET num == SumOver(vm_ram, DOMAIN vm_ram)
        den == Cardinality(DOMAIN vm_ram) * bandwidth
    IN <<num \div GCD(num, den), den \div GCD(num, den)>>

\* underload/trivial.py: sum(utilization[-n:]) / len(utilization[-n:]) <= threshold
last_n_average_threshold(threshold, n, utilization) ==
    IF utilization # <<>>
    THEN 100 * SumSeq(LastN(utilization, n))
            <= threshold * physical_cpu_mhz_total * Len(LastN(utilization, n))
    ELSE FALSE

\* a variant that decides without waiting for `limit` values
otf_without_limit(otf_param, threshold, limit, migration_time, utilization, state) ==
    LET st == IF DOMAIN state = {} THEN [overload |-> 0, total |-> 0] ELSE state
        overload == 100 * utilization[Len(utilization)] >= threshold * physical_cpu_mhz_total
        new == [overload |-> IF overload THEN st.overload + 1 ELSE st.overload,
                total |-> st.total + 1]
    IN <<overload /\ 100 * (migration_time[1] + new.overload * migration_time[2])
                        >= otf_param * (migration_time[1] + new.total * migration_time[2]),
         new>>

\* overload/otf.py: otf_wrapper and otf; the pair (decision, state)
otf(otf_param, threshold, limit, migration_time, utilization, state) ==
    LET st == IF DOMAIN state = {} THEN [overload |-> 0, total |-> 0] ELSE state
        overload == 100 * utilization[Len(utilization)] >= threshold * physical_cpu_mhz_total
        new == [overload |-> IF overload THEN st.overload + 1 ELSE st.overload,
                total |-> st.total + 1]
        decision == IF ~overload \/ Len(utilization) < limit
                    THEN FALSE
                    ELSE 100 * (migration_time[1] + new.overload * migration_time[2])
                            >= otf_param * (migration_time[1] + new.total * migration_time[2])
    IN <<decision, new>>

\* vm_selection/algorithms.py: minimum_migration_time_max_cpu.  The loop keeps
\* the first VM, in the order of vms_cpu.items(), whose average is the
\* greatest: these are the VMs it can return (0: None, no average above 0;
\* -1: float(sum(vals)) / len(vals) raises ZeroDivisionError on an empty history).
mmt_max_cpu_average_less(a, b) ==
    SumSeq(a) * Len(b) < SumSeq(b) * Len(a)

minimum_migration_time_max_cpu(last_n, vms_cpu, vms_ram) ==
    LET min_ram == MinOf({vms_ram[vm] : vm \in DOMAIN vms_ram})
        eligible == {vm \in DOMAIN vms_cpu : vms_ram[vm] <= min_ram}
        vals(vm) == LastN(vms_cpu[vm], last_n)
        positive == {vm \in eligible : SumSeq(vals(vm)) > 0}
        best == {vm \in positive : \A other \in positive : ~mmt_max_cpu_average_less(vals(vm), vals(other))}
    IN IF \E vm \in eligible : vals(vm) = <<>>
       THEN {-1}
       ELSE IF best = {} THEN {0} ELSE best

LmNoTick == [outcome |-> "none", utilization |-> <<>>, underload |-> FALSE, overload |-> FALSE, vm_uuids |-> <<>>]

\* LocalManager.__init__: self.state = init_state()
LmInit ==
    /\ lm_state = [initialized |-> FALSE,
                   migration_time |-> <<0, 1>>,
                   underload_detection_state |-> <<>>,
                   overload_detection_state |-> <<>>,
                   vm_selection_state |-> <<>>]
    /\ lm_ticks = 0
    /\ lm_tick = LmNoTick
    /\ lm_sent = <<>>

LmQuiet == LmInit

\* LocalManager.execute: one iteration.  local_vm_data is what the files of
\* <local_data_directory>/vms hold, known the VMs libvirt can look up,
\* host_cpu_mhz the content of the host file, selected the VM the selection
\* returns when it is called.
LmExecute(local_vm_data, known, host_cpu_mhz, selected) ==
    LET vm_ram == get_ram(DOMAIN local_vm_data, known)
        vm_cpu_mhz == cleanup_vm_data(local_vm_data, DOMAIN vm_ram)
        host_cpu_utilization ==
            IF DOMAIN vm_cpu_mhz = {} THEN <<>>
            ELSE vm_mhz_to_percentage(vm_cpu_mhz, host_cpu_mhz, physical_cpu_mhz_total)
        migration_time ==
            IF lm_state.initialized THEN lm_state.migration_time
            ELSE LET mt == calculate_migration_time(vm_ram, network_migration_bandwidth)
                 IN <<mt[1], mt[2] * data_collector_interval>>
        underload == last_n_average_threshold(UnderloadThresholdPct, UnderloadN, host_cpu_utilization)
        detection == otf(OtfPct, OtfThresholdPct, OtfLimit, migration_time, host_cpu_utilization, lm_state.overload_detection_state)
        overload == detection[1]
        selection == minimum_migration_time_max_cpu(SelectionLastN, vm_cpu_mhz, vm_ram)
    IN /\ lm_ticks < MaxTicks
       /\ lm_ticks' = lm_ticks + 1
       /\ IF host_cpu_utilization = <<>>
          THEN /\ selected = 0
               /\ lm_tick' = [LmNoTick EXCEPT !.outcome = "skipped"]
               /\ UNCHANGED lm_state
          ELSE /\ lm_state' = [initialized |-> TRUE,
                               migration_time |-> migration_time,
                               underload_detection_state |-> <<>>,
                               overload_detection_state |-> detection[2],
                               vm_selection_state |-> <<>>]
               /\ IF underload \/ ~overload
                  THEN /\ selected = 0
                       /\ lm_tick' = [outcome |-> IF underload THEN "underload" ELSE "normal",
                                      utilization |-> host_cpu_utilization,
                                      underload |-> underload, overload |-> overload,
                                      vm_uuids |-> <<>>]
                  ELSE /\ selected \in selection
                       /\ lm_tick' = [outcome |-> IF selected = -1 THEN "raised" ELSE "overload",
                                      utilization |-> host_cpu_utilization,
                                      underload |-> underload, overload |-> overload,
                                      vm_uuids |-> IF selected = -1 THEN <<>> ELSE <<selected>>]
       \* "TODO: send rpc message to global manager": nothing is sent
       /\ UNCHANGED lm_sent
       /\ UNCHANGED <<gmVars, bfdVars, svcVars, moreVars>>

LmLocalVmData == UNION {[S -> LmVmHistories] : S \in SUBSET VMs}

LmNext ==
    \E local_vm_data \in LmLocalVmData : \E known \in SUBSET VMs :
        \E host_cpu_mhz \in LmHostHistories : \E selected \in VMs \cup {0, -1} :
            LmExecute(local_vm_data, known, host_cpu_mhz, selected)

\* ------------------------------------------------- the data collector
\* Collector of locals/collector.py on one compute host. Values are MHz; the
\* overload threshold is a percentage; a file is the sequence of the values
\* of its lines (a file written from no value reads as no value). A CPU
\* time is 0 or 1, which stands for any positive time: libvirt reports a
\* positive time that never decreases for a VM it finds, and get_cpu_time
\* returns 0 for a VM whose lookup fails. A host CPU usage below 0 stands
\* for /proc/stat counters that went back since the last iteration.
MaxDataLength == 2
MaxColTicks == 4
ColOverloadThresholdPct == 80
ColPhysicalMhz == 10
ColVmMhz == {0, 5}
ColHostMhz == {-5, 0, 10}
ColRemoteHistories == {<<>>, <<5>>, <<0, 5, 0>>}

\* collections.deque(iterable, maxlen)
deque(values, maxlen) == LastN(values, maxlen)

\* deque.append(x) on a deque of maximal length maxlen
deque_append(d, x, maxlen) ==
    IF maxlen = 0 THEN d
    ELSE IF Len(d) = maxlen THEN Append(Tail(d), x)
    ELSE Append(d, x)

\* fetch_remote_data: db.select_cpu_mhz_for_vm(uuid, data_length) for each uuid
fetch_remote_data(remote, data_length, uuids) ==
    [uuid \in uuids |-> LastN(remote[uuid], data_length)]

write_vm_data_locally(files, data, data_length) ==
    [uuid \in DOMAIN files \cup DOMAIN data |->
        IF uuid \in DOMAIN data
        THEN IF data_length > 0 THEN LastN(data[uuid], data_length) ELSE <<>>
        ELSE files[uuid]]

\* a cleanup that leaves the files of the removed VMs in place
cleanup_local_vm_data_keeping_files(files, removed) == files

cleanup_local_vm_data(files, removed) == Pop(files, removed)

append_vm_data_locally(files, data, data_length) ==
    [uuid \in DOMAIN files \cup DOMAIN data |->
        IF uuid \notin DOMAIN data THEN files[uuid]
        ELSE IF uuid \notin DOMAIN files THEN <<data[uuid]>>
        ELSE deque_append(deque(files[uuid], data_length), data[uuid], data_length)]

append_host_data_locally(file, cpu_mhz, data_length) ==
    IF ~file.exists THEN [exists |-> TRUE, values |-> <<cpu_mhz>>]
    ELSE [exists |-> TRUE,
          values |-> deque_append(deque(file.values, data_length), cpu_mhz, data_length)]

\* a variant that inserts a row at every call
log_host_overload_always(overload_threshold, previous_overload, host_total_mhz, host_utilization_mhz) ==
    [insert |-> TRUE,
     overload_int |-> IF overload_threshold * host_total_mhz < 100 * host_utilization_mhz THEN 1 ELSE 0]

\* log_host_overload: whether a row is inserted, and the value returned
log_host_overload(overload_threshold, previous_overload, host_total_mhz, host_utilization_mhz) ==
    LET overload == overload_threshold * host_total_mhz < 100 * host_utilization_mhz
        overload_int == IF overload THEN 1 ELSE 0
    IN [insert |-> \/ (previous_overload # -1 /\ previous_overload # overload_int)
                   \/ previous_overload = -1,
        overload_int |-> overload_int]

ColNoTick == [outcome |-> "none", error |-> "none", not_running |-> {}, failed |-> {}, added_vm_data |-> <<>>, cpu_mhz |-> <<>>, host_cpu_mhz_hypervisor |-> 0, total_cpu_mhz |-> 0, inserted |-> FALSE]

\* Collector.__init__ and init_state
ColStart ==
    /\ col_vm_files = <<>>
    /\ col_host_file = [exists |-> FALSE, values |-> <<>>]
    /\ col_state = [previous_time |-> 0, previous_cpu_time |-> <<>>, previous_cpu_mhz |-> <<>>,
                    previous_host_cpu_time |-> 0, previous_overload |-> -1]
    /\ col_events = <<>>
    /\ col_ticks = 0
    /\ col_tick = ColNoTick

ColInit == col_data_length \in 0..MaxDataLength /\ ColStart
ColQuiet == col_data_length = MaxDataLength /\ ColStart

\* the VMs left in vms_added by
\*   for i, vm in enumerate(vms_added):
\*       if vms_current[vm] != libvirt.VIR_DOMAIN_RUNNING: del vms_added[i]; del vms_current[vm]
running_added_vms(vms_listed, not_running, order) ==
    SeqToSet(enumerate_del(order, 1, vms_listed \ not_running))

\* Collector.execute: one iteration. vms_listed are the VMs libvirt lists,
\* not_running those of the newly listed ones that are not in the state
\* RUNNING, order the list get_added_vms returns, failed the VMs whose lookup
\* fails in get_cpu_time, remote the rows of the central database, sample the
\* MHz computed from the CPU times, host_cpu_mhz the usage computed from
\* /proc/stat; done are the keys handled before a KeyError ends the iteration.
ColExecute(vms_listed, not_running, order, failed, remote, sample, host_cpu_mhz) ==
    \E vms_added \in {running_added_vms(vms_listed, not_running, order)} :
    \E vms_current \in {vms_listed \ (SeqToSet(order) \ vms_added)} :
    \E previous_cpu_time \in {Restrict(col_state.previous_cpu_time, vms_current)} :
    LET data_length == col_data_length
        vms_previous == DOMAIN col_vm_files
        added_vm_data == fetch_remote_data(remote, data_length, vms_added)
        written == write_vm_data_locally(col_vm_files, added_vm_data, data_length)
        vms_removed == vms_previous \ vms_current
        cleaned == cleanup_local_vm_data(written, vms_removed)
        \* del state['previous_cpu_time'][vm]; del state['previous_cpu_mhz'][vm]
        del_fails == {vm \in vms_removed : vm \notin DOMAIN col_state.previous_cpu_time \/ vm \notin DOMAIN col_state.previous_cpu_mhz}
        previous_cpu_mhz == Pop(col_state.previous_cpu_mhz, vms_removed)
        \* get_cpu_mhz
        \* previous_cpu_time is state['previous_cpu_time'] cut to vms_current
        measured == DOMAIN previous_cpu_time
        added_vms == vms_current \ measured
        \* time.time() and the counters of /proc/stat grow from one iteration
        \* to the next
        current_time == col_ticks + 1
        \* get_cpu_time: the CPU time of a VM grows with the time
        current_cpu_time == [uuid \in vms_current |-> IF uuid \in failed THEN 0 ELSE current_time]
        decreased == {uuid \in measured : current_cpu_time[uuid] < previous_cpu_time[uuid]}
        mhz_fails == decreased \ DOMAIN previous_cpu_mhz
        get_fails == added_vms \ DOMAIN added_vm_data
        cpu_mhz == [uuid \in measured \cup {u \in added_vms : added_vm_data[u] # <<>>} |->
                       IF uuid \in decreased THEN previous_cpu_mhz[uuid]
                       ELSE IF uuid \in measured
                            \* calculate_cpu_mhz: no CPU time passed from 0 to 0
                            THEN IF uuid \in failed THEN 0 ELSE sample[uuid]
                            ELSE added_vm_data[uuid][Len(added_vm_data[uuid])]]
        total_vms_cpu_mhz == SumOver(cpu_mhz, DOMAIN cpu_mhz)
        host_cpu_mhz_hypervisor ==
            IF host_cpu_mhz - total_vms_cpu_mhz < 0 THEN 0 ELSE host_cpu_mhz - total_vms_cpu_mhz
        total_cpu_mhz == total_vms_cpu_mhz + host_cpu_mhz_hypervisor
        logged == log_host_overload(ColOverloadThresholdPct, col_state.previous_overload, ColPhysicalMhz, total_cpu_mhz)
        raised == [ColNoTick EXCEPT !.outcome = "raised", !.not_running = not_running, !.failed = failed,
                                    !.added_vm_data = added_vm_data]
    IN /\ col_ticks < MaxColTicks
       /\ failed \subseteq vms_current
       \* the counters of /proc/stat start from 0
       /\ col_state.previous_host_cpu_time = 0 => host_cpu_mhz >= 0
       /\ col_ticks' = col_ticks + 1
       /\ UNCHANGED col_data_length
       /\ IF del_fails # {}
          THEN \* KeyError in execute, after the files were written and removed
               \E failing \in del_fails : \E done \in SUBSET (vms_removed \ del_fails) :
                   /\ col_vm_files' = cleaned
                   /\ col_state' = [col_state EXCEPT !.previous_cpu_time = Pop(@, done \cup {failing}),
                                                     !.previous_cpu_mhz = Pop(@, done)]
                   /\ col_tick' = [raised EXCEPT !.error = "KeyError in execute"]
                   /\ UNCHANGED <<col_host_file, col_events>>
          ELSE IF mhz_fails # {}
          THEN \* KeyError in get_cpu_mhz: previous_cpu_mhz[uuid]
               \E done \in SUBSET (measured \ mhz_fails) :
               /\ col_vm_files' = cleaned
               /\ col_state' = [col_state EXCEPT !.previous_cpu_time = Restrict(current_cpu_time, done) @@ previous_cpu_time,
                                                 !.previous_cpu_mhz = previous_cpu_mhz]
               /\ col_tick' = [raised EXCEPT !.error = "KeyError in get_cpu_mhz"]
               /\ UNCHANGED <<col_host_file, col_events>>
          ELSE IF get_fails # {}
          THEN \* KeyError in get_cpu_mhz: added_vm_data[uuid]
               \E done \in SUBSET (added_vms \ get_fails) :
               /\ col_vm_files' = cleaned
               /\ col_state' = [col_state EXCEPT !.previous_cpu_time = Restrict(current_cpu_time, measured \cup done),
                                                 !.previous_cpu_mhz = previous_cpu_mhz]
               /\ col_tick' = [raised EXCEPT !.error = "KeyError in get_cpu_mhz"]
               /\ UNCHANGED <<col_host_file, col_events>>
          ELSE IF host_cpu_mhz < 0
          THEN \* ValueError in get_host_cpu_mhz, after get_cpu_mhz has updated
               \* the dict state['previous_cpu_time']
               /\ col_vm_files' = cleaned
               /\ col_state' = [col_state EXCEPT !.previous_cpu_time = current_cpu_time,
                                                 !.previous_cpu_mhz = previous_cpu_mhz]
               /\ col_tick' = [raised EXCEPT !.error = "ValueError in get_host_cpu_mhz"]
               /\ UNCHANGED <<col_host_file, col_events>>
          ELSE /\ TRUE
               /\ IF col_state.previous_time > 0
                  THEN /\ col_vm_files' = append_vm_data_locally(cleaned, cpu_mhz, data_length)
                       /\ col_host_file' = append_host_data_locally(col_host_file, host_cpu_mhz_hypervisor, data_length)
                       /\ col_events' = IF logged.insert THEN Append(col_events, logged.overload_int) ELSE col_events
                       /\ col_state' = [previous_time |-> current_time, previous_cpu_time |-> current_cpu_time,
                                        previous_cpu_mhz |-> cpu_mhz,
                                        previous_host_cpu_time |-> current_time,
                                        previous_overload |-> logged.overload_int]
                       /\ col_tick' = [outcome |-> "appended", error |-> "none", not_running |-> not_running, failed |-> failed,
                                       added_vm_data |-> added_vm_data,
                                       cpu_mhz |-> cpu_mhz,
                                       host_cpu_mhz_hypervisor |-> host_cpu_mhz_hypervisor,
                                       total_cpu_mhz |-> total_cpu_mhz,
                                       inserted |-> logged.insert]
                  ELSE /\ col_vm_files' = cleaned
                       /\ col_state' = [col_state EXCEPT !.previous_time = current_time,
                                                         !.previous_cpu_time = current_cpu_time,
                                                         !.previous_cpu_mhz = cpu_mhz,
                                                         !.previous_host_cpu_time = current_time]
                       /\ col_tick' = [ColNoTick EXCEPT !.outcome = "first", !.not_running = not_running, !.failed = failed,
                                                        !.added_vm_data = added_vm_data]
                       /\ UNCHANGED <<col_host_file, col_events>>
       /\ UNCHANGED <<gmVars, bfdVars, svcVars, lmVars, otfVars, mhodVars, callVars, hostStatesVars, vmIdVars, mhodRunVars, vmFileVars, gmOtherVars, hostMacVars>>

ColNext ==
    /\ col_ticks < MaxColTicks
    /\ \E vms_listed \in SUBSET VMs : \E not_running \in SUBSET (vms_listed \ DOMAIN col_vm_files) :
         \E order \in list(vms_listed \ DOMAIN col_vm_files) :
           LET vms_added == running_added_vms(vms_listed, not_running, order)
               vms_current == vms_listed \ (SeqToSet(order) \ vms_added)
           IN \E failed \in SUBSET vms_current : \E remote \in [vms_added -> ColRemoteHistories] :
                \E sample \in [(vms_current \cap DOMAIN col_state.previous_cpu_time) \ failed -> ColVmMhz] :
                  \E host_cpu_mhz \in ColHostMhz :
                    ColExecute(vms_listed, not_running, order, failed, remote, sample, host_cpu_mhz)

\* ------------------------------------------------- calls of the OTF detector
\* The function otf_factory(time_step, migration_time, params) returns, called
\* again and again with the state it returned. Utilization values are MHz of
\* physical_cpu_mhz_total (12 is 0.6, 14 is 0.7, 16 is 0.8), otf and threshold
\* are percentages, migration_time is float(migration_time) / time_step as a
\* fraction.
MaxOtfCalls == 4
OtfUtilizations == {12, 14, 16}
OtfParamSets ==
    [otf : {50, 100}, threshold : {70}, limit : {1, 3}, migration_time : {<<0, 1>>, <<1, 1>>}]

OtfStart ==
    /\ otf_state = <<>>
    /\ otf_utilization = <<>>
    /\ otf_decisions = <<>>

OtfInit == otf_params \in OtfParamSets /\ OtfStart
OtfQuiet == otf_params = [otf |-> 50, threshold |-> 70, limit |-> 3, migration_time |-> <<0, 1>>] /\ OtfStart

\* otf_wrapper(utilization, state)
OtfCall(value) ==
    LET utilization == Append(otf_utilization, value)
        result == otf(otf_params.otf, otf_params.threshold, otf_params.limit,
                      otf_params.migration_time, utilization, otf_state)
    IN /\ Len(otf_utilization) < MaxOtfCalls
       /\ otf_utilization' = utilization
       /\ otf_state' = result[2]
       /\ otf_decisions' = Append(otf_decisions, result[1])
       /\ UNCHANGED <<otf_params, gmVars, bfdVars, svcVars, lmVars, colVars, mhodVars, callVars, hostStatesVars, vmIdVars, mhodRunVars, vmFileVars, gmOtherVars, hostMacVars>>

OtfNext == \E value \in OtfUtilizations : OtfCall(value)

\* ------------------------------------------------- MHOD: the state of a host
\* overload/mhod/core.py: utilization_to_state. Thresholds and utilization are
\* percentages, so the state number the loop keeps in prev compares as 100 * prev.
RECURSIVE utilization_to_state_loop(_, _, _, _)
utilization_to_state_loop(state_config, utilization, state, prev) ==
    IF state >= Len(state_config) THEN prev + 1
    ELSE IF utilization >= 100 * prev /\ utilization < state_config[state + 1]
         THEN state
         ELSE utilization_to_state_loop(state_config, utilization, state + 1, state)

utilization_to_state(state_config, utilization) ==
    utilization_to_state_loop(state_config, utilization, 0, -1)

MhodThresholds == {40, 80, 90}
MhodUtilizations == {0, 20, 40, 70, 80, 85, 90, 100, 120}
\* the ascending lists of thresholds
MhodStateConfigs == {Sorted({<<t>> : t \in S}) : S \in SUBSET MhodThresholds}

MhodInit ==
    /\ \E config \in MhodStateConfigs : \E utilization \in MhodUtilizations :
          mhod_args = [state_config |-> [i \in 1..Len(config) |-> config[i][1]], utilization |-> utilization]
    /\ mhod_result = [called |-> FALSE, state |-> 0]

MhodQuiet ==
    /\ mhod_args = [state_config |-> <<>>, utilization |-> 0]
    /\ mhod_result = [called |-> FALSE, state |-> 0]

MhodCall ==
    /\ ~mhod_result.called
    /\ mhod_result' = [called |-> TRUE,
                       state |-> utilization_to_state(mhod_args.state_config, mhod_args.utilization)]
    /\ UNCHANGED <<mhod_args, gmVars, bfdVars, svcVars, lmVars, colVars, otfVars, callVars, hostStatesVars, vmIdVars, mhodRunVars, vmFileVars, gmOtherVars, hostMacVars>>

\* ------------------------------------------------- single calls
\* One call of a function that keeps no state, on arguments drawn from small
\* sets; call_args.fn names the function.
CallNotCalled == [called |-> FALSE, value |-> 0]

\* minimum_migration_time_max_cpu(last_n, vms_cpu, vms_ram): the VMs of a host
\* (a non-empty set), their non-empty histories of MHz and their RAM
SelectionHistories == {<<0>>, <<0, 0>>, <<2>>, <<4, 12>>, <<9, 9>>}
SelectionRams == {VmFlavorRamMb, 2 * VmFlavorRamMb}
SelectionInputs ==
    UNION {[fn : {"minimum_migration_time_max_cpu"}, last_n : 1..SelectionLastN,
            vms_cpu : [S -> SelectionHistories], vms_ram : [S -> SelectionRams]] :
           S \in (SUBSET VMs) \ {{}}}

\* vm_mhz_to_percentage(vm_mhz_history, host_mhz_history, physical_cpu_mhz):
\* the histories of the VMs of a host (a non-empty set) and of the host
PercentageVmHistories == {<<>>, <<12>>, <<4, 12>>, <<8, 0, 2>>}
PercentageHostHistories == {<<>>, <<1>>, <<12, 1>>, <<5, 1, 1, 1>>}
PercentageInputs ==
    UNION {[fn : {"vm_mhz_to_percentage"}, vm_mhz_history : [S -> PercentageVmHistories],
            host_mhz_history : PercentageHostHistories] :
           S \in (SUBSET VMs) \ {{}}}

\* get_added_vms(previous_vms, current_vms) and get_removed_vms(previous_vms,
\* current_vms): lists of UUIDs, with repetitions
CallUuids == 1..(NVMs + 1)
UuidLists == UNION {[1..n -> CallUuids] : n \in 0..NVMs}
DifferenceInputs == [fn : {"get_added_vms, get_removed_vms"}, previous_vms : UuidLists, current_vms : UuidLists]

\* a variant that keeps the elements of list2
substract_lists_keeping_all(list1, list2) == list(SeqToSet(list1))

\* the lists the call can return
substract_lists(list1, list2) == list(SeqToSet(list1) \ SeqToSet(list2))
get_added_vms(previous_vms, current_vms) == substract_lists(current_vms, previous_vms)
get_removed_vms(previous_vms, current_vms) == substract_lists(previous_vms, current_vms)

\* select_window(variances, acceptable_variances, window_sizes): two states,
\* three window sizes in ascending order; the variances are scaled to integers
\* and each one equals or exceeds the acceptable variance of its window
WindowStates == 1..2
WindowSizes == <<2, 4, 6>>
WindowVariances == {2, 3}
WindowInputs ==
    [fn : {"select_window"},
     variances : [WindowStates -> [WindowStates -> [SeqToSet(WindowSizes) -> WindowVariances]]],
     acceptable_variances : {[i \in WindowStates |-> [j \in WindowStates |-> [w \in SeqToSet(WindowSizes) |-> 2]]]}]

\* the `for window_size in window_sizes` loop, from the sizes left to scan
RECURSIVE select_window_loop(_, _, _, _)
select_window_loop(variances, acceptable_variances, window_sizes, selected_size) ==
    IF window_sizes = <<>> THEN selected_size
    ELSE LET window_size == Head(window_sizes)
         IN IF variances[window_size] > acceptable_variances[window_size]
            THEN selected_size
            ELSE select_window_loop(variances, acceptable_variances, Tail(window_sizes), window_size)

select_window(variances, acceptable_variances, window_sizes) ==
    LET n == Len(variances)
    IN [i \in 1..n |-> [j \in 1..n |->
          select_window_loop(variances[i][j], acceptable_variances[i][j], window_sizes, window_sizes[1])]]

CallInputs == SelectionInputs \cup PercentageInputs \cup DifferenceInputs \cup WindowInputs

CallInit ==
    /\ call_args \in CallInputs
    /\ call_result = CallNotCalled

CallQuiet ==
    /\ call_args = [fn |-> "none"]
    /\ call_result = CallNotCalled

CallSelection ==
    /\ call_args.fn = "minimum_migration_time_max_cpu"
    /\ ~call_result.called
    /\ \E selected_vm \in minimum_migration_time_max_cpu(call_args.last_n, call_args.vms_cpu, call_args.vms_ram) :
          call_result' = [called |-> TRUE, value |-> selected_vm]
    /\ UNCHANGED <<call_args, gmVars, bfdVars, svcVars, lmVars, colVars, otfVars, mhodVars, hostStatesVars, vmIdVars, mhodRunVars, vmFileVars, gmOtherVars, hostMacVars>>

CallMhzToPercentage ==
    /\ call_args.fn = "vm_mhz_to_percentage"
    /\ ~call_result.called
    /\ call_result' = [called |-> TRUE,
                       value |-> vm_mhz_to_percentage(call_args.vm_mhz_history, call_args.host_mhz_history, physical_cpu_mhz_total)]
    /\ UNCHANGED <<call_args, gmVars, bfdVars, svcVars, lmVars, colVars, otfVars, mhodVars, hostStatesVars, vmIdVars, mhodRunVars, vmFileVars, gmOtherVars, hostMacVars>>

CallVmDifferences ==
    /\ call_args.fn = "get_added_vms, get_removed_vms"
    /\ ~call_result.called
    /\ \E added \in get_added_vms(call_args.previous_vms, call_args.current_vms),
          removed \in get_removed_vms(call_args.previous_vms, call_args.current_vms) :
          call_result' = [called |-> TRUE, value |-> [added |-> added, removed |-> removed]]
    /\ UNCHANGED <<call_args, gmVars, bfdVars, svcVars, lmVars, colVars, otfVars, mhodVars, hostStatesVars, vmIdVars, mhodRunVars, vmFileVars, gmOtherVars, hostMacVars>>

CallSelectWindow ==
    /\ call_args.fn = "select_window"
    /\ ~call_result.called
    /\ call_result' = [called |-> TRUE,
                       value |-> select_window(call_args.variances, call_args.acceptable_variances, WindowSizes)]
    /\ UNCHANGED <<call_args, gmVars, bfdVars, svcVars, lmVars, colVars, otfVars, mhodVars, hostStatesVars, vmIdVars, mhodRunVars, vmFileVars, gmOtherVars, hostMacVars>>

CallNext ==
    \/ CallSelection
    \/ CallMhzToPercentage
    \/ CallVmDifferences
    \/ CallSelectWindow

\* ------------------------------------------------- the table host_states
\* db_temp.py: insert_host_states, select_host_states, select_active_hosts,
\* select_inactive_hosts. A row of host_states is [host_id, state]; its id is
\* its position in host_states_table.
MaxHostStateRows == 3

\* select_host_ids(): host name -> id
select_host_ids == [host \in SeqToSet(hosts_table) |-> CHOOSE id \in 1..Len(hosts_table) : hosts_table[id] = host]

\* a variant of the query that keeps the first row of each host
select_host_states_first_row ==
    LET data == {id \in 1..Len(host_states_table) :
                    ~\E id2 \in 1..Len(host_states_table) :
                        host_states_table[id].host_id = host_states_table[id2].host_id /\ id2 < id}
    IN [host \in DOMAIN select_host_ids |->
           IF \E id \in data : host_states_table[id].host_id = select_host_ids[host]
           THEN host_states_table[CHOOSE id \in data : host_states_table[id].host_id = select_host_ids[host]].state
           ELSE 1]

\* select_host_states(): the rows hs1 that have no row hs2 of the same host
\* with a greater id, then the loop over select_host_ids()
select_host_states ==
    LET data == {id \in 1..Len(host_states_table) :
                    ~\E id2 \in 1..Len(host_states_table) :
                        host_states_table[id].host_id = host_states_table[id2].host_id /\ id < id2}
    IN [host \in DOMAIN select_host_ids |->
           IF \E id \in data : host_states_table[id].host_id = select_host_ids[host]
           THEN host_states_table[CHOOSE id \in data : host_states_table[id].host_id = select_host_ids[host]].state
           ELSE 1]

select_active_hosts == {host \in DOMAIN select_host_states : select_host_states[host] = 1}
select_inactive_hosts_of_table == {host \in DOMAIN select_host_states : select_host_states[host] = 0}

\* the hosts the collectors have registered (update_host), in any order
HostStatesInit ==
    /\ hosts_table \in {order \in UNION {[1..n -> Hosts] : n \in 0..NHosts} :
                           \A i, j \in DOMAIN order : order[i] = order[j] => i = j}
    /\ host_states_table = <<>>

HostStatesQuiet ==
    /\ hosts_table = <<>>
    /\ host_states_table = <<>>

\* insert_host_states(hosts), hosts a non-empty dict of registered host names
\* to states 0 or 1; the rows are inserted in the order of hosts.items()
InsertHostStates(hosts, order) ==
    /\ DOMAIN hosts # {}
    /\ DOMAIN hosts \subseteq DOMAIN select_host_ids
    /\ Len(host_states_table) + Cardinality(DOMAIN hosts) <= MaxHostStateRows
    /\ Len(order) = Cardinality(DOMAIN hosts)
    /\ SeqToSet(order) = DOMAIN hosts
    /\ host_states_table' = host_states_table \o
           [i \in 1..Len(order) |-> [host_id |-> select_host_ids[order[i]], state |-> hosts[order[i]]]]
    /\ UNCHANGED <<hosts_table, gmVars, bfdVars, svcVars, lmVars, colVars, otfVars, mhodVars, callVars, vmIdVars, mhodRunVars, vmFileVars, gmOtherVars, hostMacVars>>

HostStatesNext ==
    \E S \in SUBSET Hosts : \E hosts \in [S -> {0, 1}] :
        \E order \in UNION {[1..n -> Hosts] : n \in 1..NHosts} : InsertHostStates(hosts, order)

\* ------------------------------------------------- the table vms
\* db_temp.py: select_vm_id, called by insert_vm_cpu_mhz (the Collectors) and
\* insert_vm_migration (the Global Manager), each client on a connection of
\* its own. The SELECT and the INSERT are two statements; nothing makes uuid
\* unique in vms (utils/db_utils.py, db/sqlalchemy/models.py).
NDbClients == 2
MaxVmRows == 3
DbClients == 1..NDbClients

VmIdNoCall == [pc |-> "idle", uuid |-> 0, row |-> 0]

VmIdInit ==
    /\ vms_table = <<>>
    /\ vm_id_calls = [client \in DbClients |-> VmIdNoCall]
    /\ vm_ids_returned = {}

VmIdQuiet == VmIdInit

\* sel = select([vms.c.id]).where(vms.c.uuid == uuid); row = fetchone()
\* (0: None; of several rows the database returns the first)
SelectVmRow(client, uuid) ==
    LET rows == {id \in 1..Len(vms_table) : vms_table[id] = uuid}
    IN /\ vm_id_calls[client].pc = "idle"
       /\ Len(vms_table) < MaxVmRows
       /\ vm_id_calls' = [vm_id_calls EXCEPT ![client] =
              [pc |-> "selected", uuid |-> uuid, row |-> IF rows = {} THEN 0 ELSE MinOf(rows)]]
       /\ UNCHANGED <<vms_table, vm_ids_returned>>
       /\ UNCHANGED <<gmVars, bfdVars, svcVars, lmVars, colVars, otfVars, mhodVars, callVars, hostStatesVars, mhodRunVars, vmFileVars, gmOtherVars, hostMacVars>>

\* if row is None: insert and return inserted_primary_key; else return row['id']
ReturnVmId(client) ==
    LET call == vm_id_calls[client]
    IN /\ call.pc = "selected"
       /\ IF call.row = 0
          THEN /\ vms_table' = Append(vms_table, call.uuid)
               /\ vm_ids_returned' = vm_ids_returned \cup {<<call.uuid, Len(vms_table) + 1>>}
          ELSE /\ vm_ids_returned' = vm_ids_returned \cup {<<call.uuid, call.row>>}
               /\ UNCHANGED vms_table
       /\ vm_id_calls' = [vm_id_calls EXCEPT ![client] = VmIdNoCall]
       /\ UNCHANGED <<gmVars, bfdVars, svcVars, lmVars, colVars, otfVars, mhodVars, callVars, hostStatesVars, mhodRunVars, vmFileVars, gmOtherVars, hostMacVars>>

VmIdNext ==
    \/ \E client \in DbClients : \E uuid \in VMs : SelectVmRow(client, uuid)
    \/ \E client \in DbClients : ReturnVmId(client)

\* ------------------------------------------------- MHOD: the calls
\* overload/mhod/core.py: mhod_factory, init_state, mhod. The transition
\* probabilities p come from estimation.select_best_estimates and the policy
\* from bruteforce.optimize, both floating-point functions of the utilization
\* history of the call; the model takes as inputs of a call whether
\* p[state_n][state_n] > 0 and whether the policy is empty. p[state_n][state_n]
\* is an estimate of the share of state_n among the states that follow state_n
\* in the history, so it is positive only if state_n follows state_n somewhere.
MaxMhodCalls == 3
MhodLearningSteps == 3
MhodRunUtilizations == {70, 85}
MhodRunHistories == UNION {[1..n -> MhodRunUtilizations] : n \in 1..MhodLearningSteps}
MhodRunParams == [state_config : {<<80>>, <<40, 80, 90>>}, learning_steps : {MhodLearningSteps}]

\* the counters of init_state
init_state == [previous_state |-> 0, time_in_states |-> 0, time_in_state_n |-> 0]

utilization_to_states(state_config, utilization) ==
    [i \in 1..Len(utilization) |-> utilization_to_state(state_config, utilization[i])]

\* a variant that does not wait for learning_steps values
mhod_without_learning(state_config, learning_steps, utilization, state, p_nn_positive, policy_empty) ==
    LET state_n == Len(state_config)
        current_state == utilization_to_state(state_config, utilization[Len(utilization)])
        new_state == [previous_state |-> current_state,
                      time_in_states |-> state.time_in_states + 1,
                      time_in_state_n |-> state.time_in_state_n + (IF current_state = state_n THEN 1 ELSE 0)]
    IN IF current_state = state_n /\ p_nn_positive
       THEN <<policy_empty, new_state>>
       ELSE <<FALSE, new_state>>

\* the decision and the state mhod returns; issue_command_deterministic(policy)
\* is len(policy) == 0
mhod(state_config, learning_steps, utilization, state, p_nn_positive, policy_empty) ==
    LET utilization_length == Len(utilization)
        state_n == Len(state_config)
        \* get_current_state(build_state_vector(state_config, utilization))
        current_state == utilization_to_state(state_config, utilization[utilization_length])
        new_state == [previous_state |-> current_state,
                      time_in_states |-> state.time_in_states + 1,
                      time_in_state_n |-> state.time_in_state_n + (IF current_state = state_n THEN 1 ELSE 0)]
    IN IF utilization_length >= learning_steps /\ current_state = state_n /\ p_nn_positive
       THEN <<policy_empty, new_state>>
       ELSE <<FALSE, new_state>>

MhodRunStart ==
    /\ mhod_state = <<>>
    /\ mhod_calls = <<>>

MhodRunInit == mhod_params \in MhodRunParams /\ MhodRunStart
MhodRunQuiet == mhod_params = [state_config |-> <<80>>, learning_steps |-> MhodLearningSteps] /\ MhodRunStart

\* mhod_wrapper(utilization, state)
MhodRunCall(utilization, p_nn_positive, policy_empty) ==
    LET state_n == Len(mhod_params.state_config)
        states == utilization_to_states(mhod_params.state_config, utilization)
        state == IF mhod_state = <<>> THEN init_state ELSE mhod_state
        result == mhod(mhod_params.state_config, mhod_params.learning_steps,
                       utilization, state, p_nn_positive, policy_empty)
    IN /\ Len(mhod_calls) < MaxMhodCalls
       /\ p_nn_positive => \E i \in 1..(Len(states) - 1) : states[i] = state_n /\ states[i + 1] = state_n
       /\ mhod_state' = result[2]
       /\ mhod_calls' = Append(mhod_calls, [utilization |-> utilization,
                                            current_state |-> result[2].previous_state,
                                            p_nn_positive |-> p_nn_positive,
                                            policy_empty |-> policy_empty,
                                            decision |-> result[1]])
       /\ UNCHANGED <<mhod_params, gmVars, bfdVars, svcVars, lmVars, colVars, otfVars, mhodVars, callVars, hostStatesVars, vmIdVars, vmFileVars, gmOtherVars, hostMacVars>>

MhodRunNext ==
    \E utilization \in MhodRunHistories : \E p_nn_positive, policy_empty \in BOOLEAN :
        MhodRunCall(utilization, p_nn_positive, policy_empty)

\* ---------------------------------------------------------------------
\* Collector.append_vm_data_locally on one VM file, statement by statement,
\* interleaved with LocalManager.get_local_vm_data. The collector and the
\* local manager are separate services; nothing orders a read with an append.

MaxFileAppends == 3
MaxFileReads == 2
VmFileValues == {0, 5}
NoVmFile == [exists |-> FALSE, values |-> <<>>]
NoVmFileRead == [done |-> FALSE, values |-> <<>>, old |-> NoVmFile, new |-> NoVmFile]

VmFileStart ==
    /\ append_pc = "idle"
    /\ append_values = <<>>
    /\ append_old = NoVmFile
    /\ vm_file_appends = 0
    /\ vm_file_read = NoVmFileRead
    /\ vm_file_reads = 0

\* the file is absent or holds what write_vm_data_locally has written
VmFileInit ==
    /\ vm_file \in {NoVmFile} \cup {[exists |-> TRUE, values |-> h] : h \in {<<>>, <<5>>, <<0, 5>>}}
    /\ VmFileStart
VmFileQuiet == vm_file = NoVmFile /\ VmFileStart

\* append_vm_data_locally: the test os.access and the open of the file;
\* open(vm_path, 'w') creates the file empty, open(vm_path, 'r+') is followed
\* by f.read() into the deque and values.append(value)
AppendOpen(value) ==
    /\ append_pc = "idle"
    /\ vm_file_appends < MaxFileAppends
    /\ append_old' = vm_file
    /\ IF ~vm_file.exists
       THEN /\ vm_file' = [exists |-> TRUE, values |-> <<>>]
            /\ append_values' = <<value>>
            /\ append_pc' = "opened"
       ELSE /\ append_values' = deque_append(deque(vm_file.values, MaxDataLength), value, MaxDataLength)
            /\ append_pc' = "read"
            /\ UNCHANGED vm_file
    /\ UNCHANGED <<vm_file_appends, vm_file_read, vm_file_reads>>
    /\ UNCHANGED <<gmVars, bfdVars, svcVars, lmVars, colVars, otfVars, mhodVars, callVars, hostStatesVars, vmIdVars, mhodRunVars, gmOtherVars, hostMacVars>>

\* f.truncate(0); f.seek(0)
AppendTruncate ==
    /\ append_pc = "read"
    /\ vm_file' = [vm_file EXCEPT !.values = <<>>]
    /\ append_pc' = "opened"
    /\ UNCHANGED <<append_values, append_old, vm_file_appends, vm_file_read, vm_file_reads>>
    /\ UNCHANGED <<gmVars, bfdVars, svcVars, lmVars, colVars, otfVars, mhodVars, callVars, hostStatesVars, vmIdVars, mhodRunVars, gmOtherVars, hostMacVars>>

\* f.write(...) and the end of the with block, which flushes the values
AppendWrite ==
    /\ append_pc = "opened"
    /\ vm_file' = [vm_file EXCEPT !.values = append_values]
    /\ append_pc' = "idle"
    /\ vm_file_appends' = vm_file_appends + 1
    /\ UNCHANGED <<append_values, append_old, vm_file_read, vm_file_reads>>
    /\ UNCHANGED <<gmVars, bfdVars, svcVars, lmVars, colVars, otfVars, mhodVars, callVars, hostStatesVars, vmIdVars, mhodRunVars, gmOtherVars, hostMacVars>>

\* LocalManager.get_local_vm_data on the file, when os.listdir lists it
GetLocalVmData ==
    /\ vm_file.exists
    /\ vm_file_reads < MaxFileReads
    /\ vm_file_read' = [done |-> TRUE, values |-> vm_file.values,
                        old |-> IF append_pc = "idle" THEN vm_file ELSE append_old,
                        new |-> IF append_pc = "idle" THEN vm_file
                                ELSE [exists |-> TRUE, values |-> append_values]]
    /\ vm_file_reads' = vm_file_reads + 1
    /\ UNCHANGED <<vm_file, append_pc, append_values, append_old, vm_file_appends>>
    /\ UNCHANGED <<gmVars, bfdVars, svcVars, lmVars, colVars, otfVars, mhodVars, callVars, hostStatesVars, vmIdVars, mhodRunVars, gmOtherVars, hostMacVars>>

VmFileNext ==
    \/ \E value \in VmFileValues : AppendOpen(value)
    \/ AppendTruncate
    \/ AppendWrite
    \/ GetLocalVmData

GmOtherQuiet == gm_others = 0

\* ---------------------------------------------------------------------
\* GlobalManager.switch_hosts_on and host_mac. arp is what the pipeline
\* "ping -c 1 host > /dev/null; arp -a host | awk '{print $4}'" prints,
\* stripped: an address, nothing, or another word of arp's output.

MaxSwitchOnCalls == 3
ArpOutputs == {"52:54:00:12:34:56", "", "<incomplete>"}

host_mac(arp) == IF Len(arp) # 17 THEN "" ELSE arp

\* init_state: 'host_macs': {}
HostMacQuiet ==
    /\ host_macs = <<>>
    /\ host_macs_writes = [host \in Hosts |-> 0]
    /\ ether_wake_calls = <<>>
    /\ switch_on_calls = 0

HostMacInit == HostMacQuiet

\* switch_hosts_on(hosts); the first call is the one of __init__, on
\* compute_hosts
SwitchHostsOnCall(hosts, arp) ==
    LET new == hosts \ DOMAIN host_macs
        macs == [host \in new |-> host_mac(arp[host])] @@ host_macs
    IN /\ switch_on_calls < MaxSwitchOnCalls
       /\ switch_on_calls = 0 => hosts = Hosts
       /\ host_macs' = macs
       /\ host_macs_writes' = [host \in Hosts |-> host_macs_writes[host] + IF host \in new THEN 1 ELSE 0]
       /\ ether_wake_calls' = Append(ether_wake_calls, {<<host, macs[host]>> : host \in hosts})
       /\ switch_on_calls' = switch_on_calls + 1
       /\ UNCHANGED <<gmVars, bfdVars, svcVars, lmVars, colVars, otfVars, mhodVars, callVars, hostStatesVars, vmIdVars, mhodRunVars, vmFileVars, gmOtherVars>>

HostMacNext ==
    \E hosts \in (SUBSET Hosts) \ {{}} : \E arp \in [hosts \ DOMAIN host_macs -> ArpOutputs] :
        SwitchHostsOnCall(hosts, arp)

MoreQuiet == ColQuiet /\ OtfQuiet /\ MhodQuiet /\ CallQuiet /\ HostStatesQuiet /\ VmIdQuiet /\ MhodRunQuiet /\ VmFileQuiet /\ GmOtherQuiet /\ HostMacQuiet

\* ------------------------------------------------- the specifications
\* the Global Manager serving requests one after the other, and Nova
Init == GmInit /\ BfdQuiet /\ SvcQuiet /\ LmQuiet /\ MoreQuiet
Next == GmNext
Spec == Init /\ [][Next]_vars

\* the same with a second request served in between, from the states in which
\* the collectors have reported every VM; the behaviours are followed up to
\* the return of the request that was overtaken
InitConcurrent == Init /\ db_vm_rows = [vm \in VMs |-> "data"]
NextConcurrent ==
    \/ /\ gm_pc = "idle" => gm_others < MaxOtherRequests
       /\ GmNext
    \/ \E host \in Hosts : \E gone \in SUBSET VMs : ExecuteUnderloadMeanwhile(host, gone)
SpecConcurrent == InitConcurrent /\ [][NextConcurrent]_vars

\* the same, where the handler goes on whenever it can and Nova ends every
\* live migration it has started, one way or the other
GmHandlerStep ==
    \/ SwitchHostsOn
    \/ \E vm \in VMs : MigrateVm(vm)
    \/ Poll
    \/ MigrateVmsEnd
    \/ SwitchHostsOff
    \/ ServiceReturn
NovaMigrationEnds ==
    \E vm \in VMs : NovaMigrationCompletes(vm) \/ NovaMigrationFails(vm)
FairSpec == Init /\ [][Next]_vars /\ WF_vars(GmHandlerStep) /\ WF_vars(NovaMigrationEnds)

\* the placement function called on any input, and once more
InitBFD == BfdInit /\ GmQuiet /\ SvcQuiet /\ LmQuiet /\ MoreQuiet
NextBFD == BfdNext
SpecBFD == InitBFD /\ [][NextBFD]_vars

\* the requests at the RPC server of the Global Manager
InitService == SvcInit /\ GmQuiet /\ BfdQuiet /\ LmQuiet /\ MoreQuiet
NextService == SvcNext
SpecService == InitService /\ [][NextService]_vars

\* the iterations of a Local Manager
InitLM == LmInit /\ GmQuiet /\ BfdQuiet /\ SvcQuiet /\ MoreQuiet
NextLM == LmNext
SpecLM == InitLM /\ [][NextLM]_vars

\* the iterations of the data collector
InitCollector == ColInit /\ GmQuiet /\ BfdQuiet /\ SvcQuiet /\ LmQuiet /\ OtfQuiet /\ MhodQuiet /\ CallQuiet /\ HostStatesQuiet /\ VmIdQuiet /\ MhodRunQuiet /\ VmFileQuiet /\ GmOtherQuiet /\ HostMacQuiet
NextCollector == ColNext
SpecCollector == InitCollector /\ [][NextCollector]_vars

\* the calls of the OTF detector
InitOTF == OtfInit /\ GmQuiet /\ BfdQuiet /\ SvcQuiet /\ LmQuiet /\ ColQuiet /\ MhodQuiet /\ CallQuiet /\ HostStatesQuiet /\ VmIdQuiet /\ MhodRunQuiet /\ VmFileQuiet /\ GmOtherQuiet /\ HostMacQuiet
NextOTF == OtfNext
SpecOTF == InitOTF /\ [][NextOTF]_vars

\* one call of utilization_to_state on any input
InitMHOD == MhodInit /\ GmQuiet /\ BfdQuiet /\ SvcQuiet /\ LmQuiet /\ ColQuiet /\ OtfQuiet /\ CallQuiet /\ HostStatesQuiet /\ VmIdQuiet /\ MhodRunQuiet /\ VmFileQuiet /\ GmOtherQuiet /\ HostMacQuiet
NextMHOD == MhodCall
SpecMHOD == InitMHOD /\ [][NextMHOD]_vars

\* the calls of insert_host_states on the central database
InitHostStates == HostStatesInit /\ GmQuiet /\ BfdQuiet /\ SvcQuiet /\ LmQuiet /\ ColQuiet /\ OtfQuiet /\ MhodQuiet /\ CallQuiet /\ VmIdQuiet /\ MhodRunQuiet /\ VmFileQuiet /\ GmOtherQuiet /\ HostMacQuiet
NextHostStates == HostStatesNext
SpecHostStates == InitHostStates /\ [][NextHostStates]_vars

\* the clients of the central database calling select_vm_id
InitVmIds == VmIdInit /\ GmQuiet /\ BfdQuiet /\ SvcQuiet /\ LmQuiet /\ ColQuiet /\ OtfQuiet /\ MhodQuiet /\ CallQuiet /\ HostStatesQuiet /\ MhodRunQuiet /\ VmFileQuiet /\ GmOtherQuiet /\ HostMacQuiet
NextVmIds == VmIdNext
SpecVmIds == InitVmIds /\ [][NextVmIds]_vars

\* the MHOD algorithm called again and again from a fresh state
InitMHODRun == MhodRunInit /\ GmQuiet /\ BfdQuiet /\ SvcQuiet /\ LmQuiet /\ ColQuiet /\ OtfQuiet /\ MhodQuiet /\ CallQuiet /\ HostStatesQuiet /\ VmIdQuiet /\ VmFileQuiet /\ GmOtherQuiet /\ HostMacQuiet
NextMHODRun == MhodRunNext
SpecMHODRun == InitMHODRun /\ [][NextMHODRun]_vars

\* the collector appending to a local VM file while the local manager reads it
InitVmFile == VmFileInit /\ GmQuiet /\ BfdQuiet /\ SvcQuiet /\ LmQuiet /\ ColQuiet /\ OtfQuiet /\ MhodQuiet /\ CallQuiet /\ HostStatesQuiet /\ VmIdQuiet /\ MhodRunQuiet /\ GmOtherQuiet /\ HostMacQuiet
NextVmFile == VmFileNext
SpecVmFile == InitVmFile /\ [][NextVmFile]_vars

\* the calls of switch_hosts_on over the life of a Global Manager
InitHostMacs == HostMacInit /\ GmQuiet /\ BfdQuiet /\ SvcQuiet /\ LmQuiet /\ ColQuiet /\ OtfQuiet /\ MhodQuiet /\ CallQuiet /\ HostStatesQuiet /\ VmIdQuiet /\ MhodRunQuiet /\ VmFileQuiet /\ GmOtherQuiet
NextHostMacs == HostMacNext
SpecHostMacs == InitHostMacs /\ [][NextHostMacs]_vars

\* one call of a function on any arguments
InitCalls == CallInit /\ GmQuiet /\ BfdQuiet /\ SvcQuiet /\ LmQuiet /\ ColQuiet /\ OtfQuiet /\ MhodQuiet /\ HostStatesQuiet /\ VmIdQuiet /\ MhodRunQuiet /\ VmFileQuiet /\ GmOtherQuiet /\ HostMacQuiet
NextCalls == CallNext
SpecCalls == InitCalls /\ [][NextCalls]_vars

\* ====================================================== the claims
PlacementHosts == {placement[vm] : vm \in DOMAIN placement}

VmsOn(host) == {vm \in VMs : vm_host[vm] = host}

\* C1 (as stated): when the placement function returns a non-empty mapping,
\* on every host that receives VMs, active or activated from the inactive
\* maps, the means of the last last_n_vm_cpu samples of the VMs mapped to it
\* sum to at most cpu_threshold * total_cpu and their RAM to at most
\* ram_threshold * total_ram.  (Both sides of the CPU test are doubled: a
\* mean of at most two samples is a multiple of one half.)
C1_PlacementWithinThresholds ==
    (bfd_result.called /\ DOMAIN bfd_result.mapping # {}) =>
        \A host \in {bfd_result.mapping[vm] : vm \in DOMAIN bfd_result.mapping} :
            LET on == {vm \in DOMAIN bfd_result.mapping : bfd_result.mapping[vm] = host}
                last_n_cpu(vm) == LastN(bfd_args.vms_cpu[vm], bfd_args.params.last_n_vm_cpu)
                twice_mean == [vm \in on |-> (2 * SumSeq(last_n_cpu(vm))) \div Len(last_n_cpu(vm))]
                total_cpu == IF host \in DOMAIN bfd_args.hosts_cpu_total
                             THEN bfd_args.hosts_cpu_total[host]
                             ELSE bfd_args.inactive_hosts_cpu[host]
                total_ram == IF host \in DOMAIN bfd_args.hosts_ram_total
                             THEN bfd_args.hosts_ram_total[host]
                             ELSE bfd_args.inactive_hosts_ram[host]
            IN /\ 100 * SumOver(twice_mean, on) <= 2 * bfd_args.params.cpu_threshold * total_cpu
               /\ 100 * SumOver(bfd_args.vms_ram, on) <= bfd_args.params.ram_threshold * total_ram

\* C2 (as stated): every host execute_underload passes to switch_hosts_off
\* has, at that moment, no VM located on it according to the hypervisor.
C2_SleepOnlyEmptyHosts ==
    gm_pc = "switch_off" => \A host \in hosts_to_deactivate : VmsOn(host) = {}

\* C3: migrate_vms inserts a vm_migrations row (vm, host) only in a poll in
\* which Nova reports vm on host = placement[vm] with status ACTIVE; no row
\* is inserted for a VM that timed out or is still in flight.
C3_EventOnlyWhenObserved ==
    [][\A e \in db_vm_migrations' \ db_vm_migrations :
          /\ gm_pc = "poll"
          /\ e[1] = vm_pair
          /\ e[2] = placement[e[1]]
          /\ vm_host[e[1]] = e[2]
          /\ vm_status(e[1]) = "ACTIVE"
          /\ e[1] \notin retry_placement']_vars

\* a migration has been recorded while another VM of the request timed out
C3_Witness ==
    /\ db_vm_migrations # {}
    /\ retry_placement # {}
    /\ \E e \in db_vm_migrations : e[1] \in DOMAIN placement /\ e[2] = placement[e[1]]

\* C4 (as stated): the Global Manager has at most one request in progress:
\* the steps of service() for two requests never interleave.
C4_OneRequestAtATime ==
    Cardinality({g \in SvcHandlers : svc_pc[g] # "free"}) <= 1

\* C5 (as stated): migrate_vms terminates: whenever the handler is in
\* migrate_vms, it eventually leaves it.
C5_MigrateVmsTerminates ==
    (gm_pc \in {"migrate", "poll"}) ~> (gm_pc \notin {"migrate", "poll"})

\* C6 (as stated): an iteration of the Local Manager that is not skipped sends
\* underload(host) when the underload detector says so, otherwise
\* overload(host, selected_uuids) when the overload detector says so, and an
\* iteration sends nothing in every other case.
C6_TickSendsRequest ==
    [][lm_ticks' # lm_ticks =>
          IF lm_tick'.underload
          THEN /\ Len(lm_sent') = Len(lm_sent) + 1
               /\ lm_sent'[Len(lm_sent')].reason = 0
               /\ lm_sent'[Len(lm_sent')].host = lm_hostname
          ELSE IF lm_tick'.overload /\ lm_tick'.outcome = "overload"
               THEN /\ Len(lm_sent') = Len(lm_sent) + 1
                    /\ lm_sent'[Len(lm_sent')].reason = 1
                    /\ lm_sent'[Len(lm_sent')].host = lm_hostname
                    /\ lm_sent'[Len(lm_sent')].vm_uuids = lm_tick'.vm_uuids
               ELSE lm_sent' = lm_sent]_vars

\* C7 (as stated): in execute_underload a host with at least one VM that is
\* not in the latest-VM-CPU map is kept active: it is no destination of the
\* placement and it is not passed to switch_hosts_off by that request.
C7_HostWithNewVmKeptActive ==
    gm_req.reason = 0 =>
        \A host \in Hosts :
            (\E vm \in VmsOn(host) : vm \notin DOMAIN select_last_cpu_mhz_for_vms) =>
                /\ host \notin PlacementHosts
                /\ host \notin switched_off
                /\ gm_pc = "switch_off" => host \notin hosts_to_deactivate

\* C8: in execute_underload, when the placement is empty no live migration
\* is issued and the underloaded host is not passed to switch_hosts_off.
C8_EmptyPlacementKeepsHost ==
    (gm_req.reason = 0 /\ DOMAIN placement = {}) =>
        /\ live_migrate_calls = {}
        /\ gm_pc # "migrate" /\ gm_pc # "poll"
        /\ gm_req.host \notin switched_off
        /\ gm_pc = "switch_off" => gm_req.host \notin hosts_to_deactivate

\* an underload request whose placement came back empty has switched other
\* hosts off, while the underloaded host, which still has VMs and was not
\* asleep before, stays on
C8_Witness ==
    /\ gm_req.reason = 0
    /\ gm_pc = "done"
    /\ DOMAIN placement = {}
    /\ switched_off # {}
    /\ VmsOn(gm_req.host) # {}
    /\ db_host_states[gm_req.host] = 1

\* C9 (as stated): the host named in the request is no destination of the
\* placement the Global Manager executes for it.
C9_RequestHostNoDestination ==
    gm_req.host \notin PlacementHosts

\* C10: execute_underload never powers a host on: every destination of its
\* placement already runs a VM with CPU data (one that is not being moved by
\* the request), and switch_hosts_on is not called.
C10_UnderloadWakesNoHost ==
    gm_req.reason = 0 =>
        /\ switched_on = {}
        /\ gm_pc # "switch_on"
        /\ \A host \in PlacementHosts :
              \E vm \in VmsOn(host) \ DOMAIN placement :
                  vm \in DOMAIN select_last_cpu_mhz_for_vms

\* an underload request has moved a VM to its destination
C10_Witness ==
    /\ gm_req.reason = 0
    /\ gm_pc = "done"
    /\ \E vm \in DOMAIN placement : vm_host[vm] = placement[vm] /\ <<vm, placement[vm]>> \in db_vm_migrations

\* C11: in execute_overload every destination of the placement that is in the
\* inactive-host maps of the request is in hosts_to_activate, and when a
\* live migration of the request is issued switch_hosts_on has been called
\* for these hosts and their latest host state is 1.
C11_WakeBeforeMigrate ==
    [][/\ (gm_pc = "idle" /\ gm_req'.reason = 1) =>
              \A vm \in DOMAIN placement' :
                  placement'[vm] \in overload_inactive_hosts => placement'[vm] \in hosts_to_activate'
       /\ (gm_req.reason = 1 /\ gm_pc = "migrate" /\ vms' # vms /\ gm_pc' # "migrate") =>
              \A host \in hosts_to_activate :
                  host \in switched_on /\ db_host_states[host] = 1]_vars

\* an overload request has woken a destination and issued a live migration
C11_Witness ==
    /\ gm_req.reason = 1
    /\ hosts_to_activate # {}
    /\ hosts_to_activate \subseteq switched_on
    /\ \E call \in live_migrate_calls : call[2] \in hosts_to_activate

\* C12: in migrate_vms, retry passes included, a live migration is issued
\* only when no VM is in flight and the batch is empty: every VM of the
\* request started before has been recorded as migrated or has timed out and
\* waits for its retry.
C12_OneVmInFlight ==
    [][(gm_pc = "migrate" /\ vms' # vms /\ gm_pc' # "migrate") =>
          /\ vm_pair = 0
          /\ \A vm \in VMs : vm_task[vm] = 0
          /\ \A call \in live_migrate_calls :
                \/ call \in db_vm_migrations
                \/ call[1] \in retry_placement \cup vms]_vars

\* a second VM of the request is in flight after the first has been recorded
C12_Witness ==
    /\ gm_pc = "poll"
    /\ vm_task[vm_pair] # 0
    /\ \E call \in live_migrate_calls : call[1] # vm_pair /\ call \in db_vm_migrations

\* C13: a VM leaves its batch as timed out only when more than 300 s have
\* passed since the batch started and Nova reports it ACTIVE on a host other
\* than its destination; it is then in retry_placement, migrate_vms does not
\* return while a timed-out VM waits, and the retry is issued to the
\* destination of the original placement.
C13_TimeoutAndRetry ==
    [][/\ \A vm \in retry_placement' \ retry_placement :
              /\ gm_pc = "poll" /\ vm = vm_pair
              /\ late
              /\ vm_host[vm] # placement[vm]
              /\ vm_status(vm) = "ACTIVE"
       /\ (gm_pc = "migrate" /\ gm_pc' \in {"switch_off", "done"}) => retry_placement = {} /\ vms = {}
       /\ (gm_pc = "migrate" /\ retry_placement' # retry_placement) =>
              vms' = retry_placement /\ placement' = placement
       /\ \A vm \in VMs : (vm_task[vm] = 0 /\ vm_task'[vm] # 0) => vm_task'[vm] = placement[vm]]_vars

\* the retry pass has started: a VM whose live migration was issued and timed
\* out is about to be migrated again, to the destination of the placement
C13_Witness ==
    /\ gm_pc = "migrate"
    /\ vms # {}
    /\ retry_placement = {}
    /\ \A vm \in vms :
          /\ <<vm, placement[vm]>> \in live_migrate_calls
          /\ <<vm, placement[vm]>> \notin db_vm_migrations
          /\ vm_host[vm] # placement[vm]
          /\ vm_task[vm] = 0

\* C14: an exception raised while a request is processed is caught by
\* service() and does not leave it: no call of service ends by an exception
\* (gm_pc = "raised" is the state of a call that an exception has left, by
\* the raise that ends the except clause of service).
C14_ExceptionStaysInHandler ==
    gm_pc # "raised"

\* C15: on a tick of an initialized Local Manager where the underload
\* detector returns true, the state of the overload detector (the OTF
\* counters overload and total) and the state of the VM selector are the
\* same after the tick as before it.
C15_UnderloadTickKeepsOverloadState ==
    [][(lm_ticks' # lm_ticks /\ lm_state.initialized /\ lm_tick'.outcome = "underload") =>
          /\ lm_state'.overload_detection_state = lm_state.overload_detection_state
          /\ lm_state'.vm_selection_state = lm_state.vm_selection_state]_vars

\* C16: on every iteration of the collector that calls log_host_overload, a
\* HostOverloadEvent is inserted iff previous_overload is -1 or differs from
\* the current flag (overload_threshold * total_host_mhz < current_total_mhz),
\* at most one row is inserted, its value is the flag, and the flag becomes
\* previous_overload; the first logging iteration inserts, and consecutive
\* rows of one collector run alternate in value.
C16_OverloadEdgeLogged ==
    [][(col_ticks' # col_ticks) =>
          LET flag == IF ColOverloadThresholdPct * ColPhysicalMhz < 100 * col_tick'.total_cpu_mhz THEN 1 ELSE 0
              edge == col_state.previous_overload = -1 \/ col_state.previous_overload # flag
          IN /\ col_tick'.outcome = "appended" =>
                   /\ col_tick'.inserted <=> edge
                   /\ col_events' = IF edge THEN Append(col_events, flag) ELSE col_events
                   /\ col_state'.previous_overload = flag
                   /\ col_events = <<>> => Len(col_events') = 1
             /\ col_tick'.outcome # "appended" =>
                   col_events' = col_events /\ col_state'.previous_overload = col_state.previous_overload
             /\ \A i \in 1..(Len(col_events') - 1) : col_events'[i] # col_events'[i + 1]]_vars

\* two rows were inserted and the last logging iteration inserted none
C16_Witness ==
    /\ col_tick.outcome = "appended"
    /\ ~col_tick.inserted
    /\ Len(col_events) = 2
    /\ col_events[1] # col_events[2]

\* C17: after any sequence of iterations every local VM file and the host
\* file hold at most data_collector_data_length values, and an append to a
\* file leaves the latest data_collector_data_length values of the old
\* content followed by the new value, in this order.
C17_HistoryCap ==
    [][(col_ticks' # col_ticks) =>
          /\ \A vm \in DOMAIN col_vm_files' : Len(col_vm_files'[vm]) <= col_data_length
          /\ Len(col_host_file'.values) <= col_data_length
          /\ col_tick'.outcome = "appended" =>
                /\ \A vm \in DOMAIN col_tick'.cpu_mhz \cap DOMAIN col_vm_files :
                      col_vm_files'[vm] = LastN(Append(col_vm_files[vm], col_tick'.cpu_mhz[vm]), col_data_length)
                /\ col_host_file'.values =
                      LastN(Append(col_host_file.values, col_tick'.host_cpu_mhz_hypervisor), col_data_length)]_vars

\* C18 (as stated): best_fit_decreasing returns {} iff some VM with a CPU
\* history could not be placed after the active hosts were scanned and every
\* inactive host was promoted; otherwise the keys of the mapping are the VMs
\* with a non-empty CPU history and each is mapped to a host of the active
\* or of the inactive maps.
C18_EmptyIffExhausted ==
    bfd_result.called =>
        LET final == bfd_final(bfd_args.params.last_n_vm_cpu,
                               get_available_resources(bfd_args.params.cpu_threshold, bfd_args.hosts_cpu_usage, bfd_args.hosts_cpu_total),
                               get_available_resources(bfd_args.params.ram_threshold, bfd_args.hosts_ram_usage, bfd_args.hosts_ram_total),
                               bfd_args.inactive_hosts_cpu, bfd_args.inactive_hosts_ram,
                               bfd_args.vms_cpu, bfd_args.vms_ram)
            with_history == {vm \in DOMAIN bfd_args.vms_cpu : bfd_args.vms_cpu[vm] # <<>>}
            exhausted == (with_history \ DOMAIN final.mapping # {}) /\ final.inactive_hosts = <<>>
        IN /\ (bfd_result.mapping = <<>>) <=> exhausted
           /\ ~exhausted =>
                 /\ DOMAIN bfd_result.mapping = with_history
                 /\ \A vm \in with_history :
                       bfd_result.mapping[vm] \in DOMAIN bfd_args.hosts_cpu_total \cup DOMAIN bfd_args.inactive_hosts_cpu

\* C18 (amended): the same, where {} is also what is returned when no input
\* VM has a non-empty CPU history (nothing to place, no host exhausted).
C18_EmptyIffExhaustedOrNothingToPlace ==
    bfd_result.called =>
        LET final == bfd_final(bfd_args.params.last_n_vm_cpu,
                               get_available_resources(bfd_args.params.cpu_threshold, bfd_args.hosts_cpu_usage, bfd_args.hosts_cpu_total),
                               get_available_resources(bfd_args.params.ram_threshold, bfd_args.hosts_ram_usage, bfd_args.hosts_ram_total),
                               bfd_args.inactive_hosts_cpu, bfd_args.inactive_hosts_ram,
                               bfd_args.vms_cpu, bfd_args.vms_ram)
            with_history == {vm \in DOMAIN bfd_args.vms_cpu : bfd_args.vms_cpu[vm] # <<>>}
            exhausted == (with_history \ DOMAIN final.mapping # {}) /\ final.inactive_hosts = <<>>
        IN /\ (bfd_result.mapping = <<>>) <=> (exhausted \/ with_history = {})
           /\ ~exhausted =>
                 /\ DOMAIN bfd_result.mapping = with_history
                 /\ \A vm \in with_history :
                       bfd_result.mapping[vm] \in DOMAIN bfd_args.hosts_cpu_total \cup DOMAIN bfd_args.inactive_hosts_cpu

\* a call where the VM with the larger demand fits nowhere and a smaller one
\* was placed: the partial mapping is dropped and {} returned
C18_Witness ==
    /\ bfd_result.called
    /\ bfd_result.mapping = <<>>
    /\ \E vm \in DOMAIN bfd_args.vms_cpu :
          /\ bfd_args.vms_cpu[vm] # <<>>
          /\ vm \in DOMAIN bfd_final(bfd_args.params.last_n_vm_cpu,
                               get_available_resources(bfd_args.params.cpu_threshold, bfd_args.hosts_cpu_usage, bfd_args.hosts_cpu_total),
                               get_available_resources(bfd_args.params.ram_threshold, bfd_args.hosts_ram_usage, bfd_args.hosts_ram_total),
                               bfd_args.inactive_hosts_cpu, bfd_args.inactive_hosts_ram,
                               bfd_args.vms_cpu, bfd_args.vms_ram).mapping

\* C19: over the calls of the function built by otf_factory, starting from a
\* fresh state, each call adds 1 to total, and 1 to overload iff
\* utilization[-1] >= threshold, so that 0 <= overload <= total = number of
\* calls; the decision is false if utilization[-1] < threshold or
\* len(utilization) < limit and is otherwise
\* (migration_time + overload) / (migration_time + total) >= otf; with otf 0.5,
\* threshold 0.7, limit 3, migration_time 0 and 0.6, 0.6, 0.8, 0.8 fed one
\* at a time the decisions are False, False, False, True.
C19_OtfCountersAndDecision ==
    [][(otf_utilization' # otf_utilization) =>
          LET before == IF otf_decisions = <<>> THEN [overload |-> 0, total |-> 0] ELSE otf_state
              n == Len(otf_utilization')
              over == 100 * otf_utilization'[n] >= otf_params.threshold * physical_cpu_mhz_total
              mt == otf_params.migration_time
          IN /\ otf_state'.total = before.total + 1
             /\ otf_state'.overload = before.overload + (IF over THEN 1 ELSE 0)
             /\ 0 <= otf_state'.overload
             /\ otf_state'.overload <= otf_state'.total
             /\ otf_state'.total = n
             /\ Len(otf_decisions') = n
             /\ otf_decisions'[n] =
                   IF ~over \/ n < otf_params.limit THEN FALSE
                   ELSE 100 * (mt[1] + otf_state'.overload * mt[2]) >= otf_params.otf * (mt[1] + otf_state'.total * mt[2])
             /\ (/\ otf_params = [otf |-> 50, threshold |-> 70, limit |-> 3, migration_time |-> <<0, 1>>]
                 /\ otf_utilization' = <<12, 12, 16, 16>>) =>
                   otf_decisions' = <<FALSE, FALSE, FALSE, TRUE>>]_vars

\* the four calls of the example have been made
C19_Witness ==
    /\ otf_params = [otf |-> 50, threshold |-> 70, limit |-> 3, migration_time |-> <<0, 1>>]
    /\ otf_utilization = <<12, 12, 16, 16>>
    /\ otf_state = [overload |-> 2, total |-> 4]
    /\ otf_decisions = <<FALSE, FALSE, FALSE, TRUE>>

\* C20: for every ascending list of thresholds state_config and every
\* utilization u >= 0, utilization_to_state returns the state s with
\* t_{s-1} <= u < t_s, that is the number of thresholds that are <= u.
C20_StateOfUtilization ==
    mhod_result.called =>
        mhod_result.state =
            Cardinality({i \in 1..Len(mhod_args.state_config) : mhod_args.state_config[i] <= mhod_args.utilization})

\* C21: for every non-empty set of VMs with non-negative CPU histories,
\* minimum_migration_time_max_cpu returns one input VM, whose RAM is the
\* minimum RAM and whose mean over cpu[-last_n:] is the largest among the
\* VMs of minimum RAM.
C21_SelectionReturnsVm ==
    (call_args.fn = "minimum_migration_time_max_cpu" /\ call_result.called) =>
        LET vms_cpu == call_args.vms_cpu
            vms_ram == call_args.vms_ram
            minimal == {vm \in DOMAIN vms_ram : \A other \in DOMAIN vms_ram : vms_ram[vm] <= vms_ram[other]}
            vals(vm) == LastN(vms_cpu[vm], call_args.last_n)
        IN /\ call_result.value \in DOMAIN vms_cpu
           /\ call_result.value \in minimal
           /\ \A other \in minimal :
                 SumSeq(vals(other)) * Len(vals(call_result.value))
                     <= SumSeq(vals(call_result.value)) * Len(vals(other))

\* C22: after any sequence of insert_host_states calls, select_host_states
\* gives every registered host the state of the row inserted last for it, or
\* 1 when it has no row; select_active_hosts and select_inactive_hosts are
\* disjoint and together are the registered hosts.
C22_LatestHostStateWins ==
    LET registered == SeqToSet(hosts_table)
        rows_of(host) == {id \in 1..Len(host_states_table) : hosts_table[host_states_table[id].host_id] = host}
    IN /\ DOMAIN select_host_states = registered
       /\ \A host \in registered :
             select_host_states[host] =
                 IF rows_of(host) = {} THEN 1 ELSE host_states_table[MaxOf(rows_of(host))].state
       /\ select_active_hosts \cap select_inactive_hosts_of_table = {}
       /\ select_active_hosts \cup select_inactive_hosts_of_table = registered

\* a host whose state was inserted twice, 0 then 1, and a host without rows
C22_Witness ==
    \E host, other \in SeqToSet(hosts_table) :
        /\ host # other
        /\ \E id, id2 \in 1..Len(host_states_table) :
              /\ id < id2
              /\ host_states_table[id].host_id = select_host_ids[host]
              /\ host_states_table[id2].host_id = select_host_ids[host]
              /\ host_states_table[id].state = 0
              /\ host_states_table[id2].state = 1
        /\ \A id \in 1..Len(host_states_table) : host_states_table[id].host_id # select_host_ids[other]
        /\ other \in select_active_hosts

\* C23: under any interleaving of the calls of select_vm_id the clients of
\* the database make, at most one row of vms exists per UUID and every call
\* for a UUID returns the same id.
C23_OneRowPerUuid ==
    /\ \A id, id2 \in 1..Len(vms_table) : vms_table[id] = vms_table[id2] => id = id2
    /\ \A a, b \in vm_ids_returned : a[1] = b[1] => a[2] = b[2]

C25_AddedAndRemoved ==
    (call_args.fn = "get_added_vms, get_removed_vms" /\ call_result.called) =>
        LET x == SeqToSet(call_args.previous_vms)
            y == SeqToSet(call_args.current_vms)
            added == SeqToSet(call_result.value.added)
            removed == SeqToSet(call_result.value.removed)
        IN /\ added = y \ x
           /\ removed = x \ y
           /\ added \cap removed = {}

\* a VM left and another arrived, a third stayed
C25_Witness ==
    /\ call_args.fn = "get_added_vms, get_removed_vms"
    /\ call_result.called
    /\ call_args.previous_vms = <<1, 2>>
    /\ call_args.current_vms = <<2, 3>>
    /\ call_result.value = [added |-> <<3>>, removed |-> <<1>>]

\* C26: best_fit_decreasing takes the VMs in decreasing (cpu_demand,
\* ram_demand, uuid) order and places each one on the first host that fits
\* when the active hosts are scanned in ascending order of their current
\* (avail_cpu, avail_ram, hostname): the availability left after the
\* deductions of all the earlier placements.
C26_ScanInCurrentOrder ==
    bfd_result.called =>
        LET last_n_vm_cpu == bfd_args.params.last_n_vm_cpu
            hosts_cpu == get_available_resources(bfd_args.params.cpu_threshold, bfd_args.hosts_cpu_usage, bfd_args.hosts_cpu_total)
            hosts_ram == get_available_resources(bfd_args.params.ram_threshold, bfd_args.hosts_ram_usage, bfd_args.hosts_ram_total)
            sorted_vms == bfd_vms(last_n_vm_cpu, bfd_args.vms_cpu, bfd_args.vms_ram)
            \* the first fitting host in ascending order of the availability
            \* cpu, ram of the active hosts
            first_fit(cpu, ram, vm) ==
                LET order == Sorted({<<cpu[host], ram[host], host>> : host \in DOMAIN cpu})
                    fit == {i \in 1..Len(order) : order[i][1] >= vm[1] /\ order[i][2] >= vm[2]}
                IN order[MinOf(fit)][3]
            RECURSIVE placed_in_order(_, _)
            \* st: the state of the function before the VMs of the list `rest`
            placed_in_order(st, rest) ==
                IF rest = <<>> THEN TRUE
                ELSE LET vm == Head(rest)
                         after == bfd_map_vm(st, vm)
                         host == after.mapping[vm[3]]
                         \* the availability when the host was chosen
                         cpu == [after.hosts_cpu EXCEPT ![host] = @ + vm[1]]
                         ram == [after.hosts_ram EXCEPT ![host] = @ + vm[2]]
                     IN /\ vm[3] \in DOMAIN after.mapping => host = first_fit(cpu, ram, vm)
                        /\ placed_in_order(after, Tail(rest))
        IN /\ \A i, j \in 1..Len(sorted_vms) : i < j => TupleLess(sorted_vms[j], sorted_vms[i])
           /\ placed_in_order([hosts |-> bfd_hosts(hosts_cpu, hosts_ram),
                               inactive_hosts |-> bfd_hosts(bfd_args.inactive_hosts_cpu, bfd_args.inactive_hosts_ram),
                               hosts_cpu |-> hosts_cpu,
                               hosts_ram |-> hosts_ram,
                               mapping |-> <<>>],
                              sorted_vms)

\* C27: best_fit_decreasing modifies none of its input maps, so that a
\* second call with the same arguments returns the same mapping.
C27_InputsUnmodified ==
    LET hosts_cpu == get_available_resources(bfd_args.params.cpu_threshold, bfd_args.hosts_cpu_usage, bfd_args.hosts_cpu_total)
        hosts_ram == get_available_resources(bfd_args.params.ram_threshold, bfd_args.hosts_ram_usage, bfd_args.hosts_ram_total)
    IN /\ bfd_result.called => (bfd_result.hosts_cpu = hosts_cpu /\ bfd_result.hosts_ram = hosts_ram)
       /\ bfd_result.again => bfd_result.mapping_again = bfd_result.mapping

\* C28: for each pair of states (i, j), select_window returns the largest
\* window size whose variance does not exceed its acceptable variance,
\* whenever at least one window size is acceptable.
C28_LargestAcceptableWindow ==
    (call_args.fn = "select_window" /\ call_result.called) =>
        \A i, j \in WindowStates :
            LET acceptable == {w \in SeqToSet(WindowSizes) :
                                  call_args.variances[i][j][w] <= call_args.acceptable_variances[i][j][w]}
            IN acceptable # {} =>
                 /\ call_result.value[i][j] \in acceptable
                 /\ \A w \in acceptable : w <= call_result.value[i][j]

\* C29: from a fresh state, each call of mhod adds 1 to time_in_states and
\* adds 1 to time_in_state_n iff the current state is N, so that
\* time_in_state_n <= time_in_states = the number of calls; the decision is
\* false unless len(utilization) >= learning_steps, the current state is N and
\* p[N][N] > 0, and then it is true iff the solver returned an empty policy.
C29_MhodCountersAndDecision ==
    LET state_n == Len(mhod_params.state_config)
        in_state_n == {k \in 1..Len(mhod_calls) : mhod_calls[k].current_state = state_n}
    IN /\ mhod_calls # <<>> =>
            /\ mhod_state.time_in_states = Len(mhod_calls)
            /\ mhod_state.time_in_state_n = Cardinality(in_state_n)
            /\ mhod_state.time_in_state_n <= mhod_state.time_in_states
       /\ \A k \in 1..Len(mhod_calls) :
            LET call == mhod_calls[k]
            IN IF /\ Len(call.utilization) >= mhod_params.learning_steps
                  /\ call.current_state = state_n
                  /\ call.p_nn_positive
               THEN call.decision = call.policy_empty
               ELSE call.decision = FALSE

\* a call that returned true after one that was in state N and one that was not
C29_Witness ==
    /\ Len(mhod_calls) = MaxMhodCalls
    /\ mhod_state.time_in_state_n = 2
    /\ mhod_calls[1].current_state = 0
    /\ Len(mhod_calls[2].utilization) < mhod_params.learning_steps
    /\ mhod_calls[2].current_state = Len(mhod_params.state_config)
    /\ mhod_calls[MaxMhodCalls].decision

\* C30: when the lookup of a VM fails in a collector iteration, the VM is
\* skipped: no MHz value is appended to its local file or inserted in the
\* database for it and its local file stays as it was, while the other VMs
\* are sampled and the iteration completes.
C30_FailedLookupSkipsVm ==
    [][(col_ticks' # col_ticks /\ col_tick'.failed # {}) =>
          /\ col_tick'.error # "KeyError in get_cpu_mhz"
          /\ \A vm \in col_tick'.failed :
                /\ vm \notin DOMAIN col_tick'.cpu_mhz
                /\ vm \in DOMAIN col_vm_files =>
                      vm \in DOMAIN col_vm_files' /\ col_vm_files'[vm] = col_vm_files[vm]
          /\ col_tick'.outcome = "appended" =>
                \A vm \in DOMAIN col_state'.previous_cpu_time \ col_tick'.failed :
                    vm \in DOMAIN col_state.previous_cpu_time => vm \in DOMAIN col_tick'.cpu_mhz]_vars

\* C31: in every collector iteration a newly listed VM that is not in the
\* state RUNNING is dropped before any VM is treated as added: it gets no
\* local file and no entry in previous_cpu_time, however many VMs are newly
\* listed.
C31_AddedVmsAreRunning ==
    [][(col_ticks' # col_ticks) =>
          \A vm \in col_tick'.not_running :
              /\ vm \notin DOMAIN col_vm_files'
              /\ vm \in DOMAIN col_state'.previous_cpu_time => vm \in DOMAIN col_state.previous_cpu_time]_vars

\* C32: a collector iteration that finds a VM with a local file no longer
\* listed deletes the file, removes the VM from previous_cpu_time and from
\* previous_cpu_mhz and does not end with an error of the removal, whatever
\* the VM's lifetime was.
C32_RemovedVmsPurged ==
    [][(col_ticks' # col_ticks) =>
          \A vm \in DOMAIN col_vm_files \ DOMAIN col_vm_files' :
              /\ col_tick'.error # "KeyError in execute"
              /\ vm \notin DOMAIN col_state'.previous_cpu_time
              /\ vm \notin DOMAIN col_state'.previous_cpu_mhz]_vars

\* C33: in a collector iteration that appends, a VM added in this iteration
\* gets no new MHz value: it has no entry in the values appended locally and
\* inserted in the database, and its local file holds exactly the history
\* fetched from the database, at most data_length values.
C33_AddedVmsNotSampled ==
    [][(col_ticks' # col_ticks /\ col_tick'.outcome = "appended") =>
          \A vm \in DOMAIN col_tick'.added_vm_data :
              /\ vm \notin DOMAIN col_tick'.cpu_mhz
              /\ col_vm_files'[vm] = col_tick'.added_vm_data[vm]
              /\ Len(col_vm_files'[vm]) <= col_data_length]_vars

\* C38: after every collector iteration that runs to completion the VMs with
\* a local file are exactly the keys of previous_cpu_time, and every key of
\* previous_cpu_mhz is one of them.
C38_FilesMatchCpuTimeKeys ==
    col_tick.outcome \in {"first", "appended"} =>
        /\ DOMAIN col_vm_files = DOMAIN col_state.previous_cpu_time
        /\ DOMAIN col_state.previous_cpu_mhz \subseteq DOMAIN col_state.previous_cpu_time

\* the last iteration completed and appended, it added a VM, and a VM has a
\* file and no previous_cpu_mhz entry
C38_Witness ==
    /\ col_tick.outcome = "appended"
    /\ col_ticks = MaxColTicks
    /\ DOMAIN col_vm_files # {}
    /\ DOMAIN col_state.previous_cpu_mhz # DOMAIN col_vm_files
    /\ DOMAIN col_tick.added_vm_data # {}

\* C39: a collector iteration ended by the ValueError of get_host_cpu_mhz,
\* after the VMs were sampled, leaves previous_time, previous_cpu_time,
\* previous_cpu_mhz and the previous host CPU counters as they were before the
\* iteration.
C39_AbortKeepsPreviousValues ==
    [][(col_ticks' # col_ticks /\ col_tick'.error = "ValueError in get_host_cpu_mhz") =>
          /\ col_state'.previous_time = col_state.previous_time
          /\ col_state'.previous_cpu_time = col_state.previous_cpu_time
          /\ col_state'.previous_cpu_mhz = col_state.previous_cpu_mhz
          /\ col_state'.previous_host_cpu_time = col_state.previous_host_cpu_time]_vars

\* C37: a read of a local VM file by the local manager, concurrent with an
\* append of the collector or not, returns either the complete content the
\* file had before the append or the complete content after it, never an
\* empty or partial one.
C37_ReadSeesOldOrNew ==
    vm_file_read.done =>
        \/ vm_file_read.old.exists /\ vm_file_read.values = vm_file_read.old.values
        \/ vm_file_read.values = vm_file_read.new.values

\* C34: when execute_underload finds that none of the VMs of the underloaded
\* host is left after the VMs without known RAM are removed, the request
\* completes without effect: no placement, no migration, no host to switch
\* off, however many VMs were removed.
C34_NoSurvivorIsNoOp ==
    [][(/\ gm_pc = "idle" /\ gm_pc' # "idle" /\ gm_req'.reason = 0
        /\ \A vm \in VMs : vm_host'[vm] # gm_req'.host) =>
          /\ gm_pc' = "done"
          /\ placement' = <<>>
          /\ hosts_to_deactivate' = {}]_vars

\* C35: switch_hosts_off, called by execute_underload, is never given a host
\* whose latest host state is already 0: no sleep command and no second
\* state 0 row for such a host.
C35_NoSleepForInactiveHost ==
    [][(gm_pc = "switch_off" /\ gm_pc' # "switch_off") =>
          \A host \in hosts_to_deactivate : db_host_states[host] # 0]_vars

\* C40: no live migration is requested toward a host whose latest host state
\* is 0: whenever nova.servers.live_migrate is called, the destination has
\* the latest host state 1.
C40_NoMigrationToInactiveHost ==
    [][(gm_pc = "migrate" /\ vms' # vms) =>
          \A vm \in vms \ vms' : db_host_states[placement[vm]] = 1]_vars

\* C36: the host_macs entry of a host is assigned at most once, and every
\* entry kept, and every address passed to ether-wake, is a resolved address
\* of 17 characters: a lookup result of another length is neither kept nor
\* passed on.
C36_MacsWrittenOnceAndResolved ==
    /\ \A host \in Hosts : host_macs_writes[host] <= 1
    /\ \A host \in DOMAIN host_macs : Len(host_macs[host]) = 17
    /\ \A i \in 1..Len(ether_wake_calls) : \A call \in ether_wake_calls[i] : Len(call[2]) = 17

=============================================================================
